---- MODULE Spec2Model ----
(***************************************************************************)
(* A model of the Cloudflare email-forwarding worker (src/src/worker.js):  *)
(* configuration resolution, destination validation, sequential failover   *)
(* within a primary destination, concurrent forwarding to the primary      *)
(* destinations of a compound destination, and the final disposition       *)
(* (accept forward, reject forward, direct reject or a raised exception).  *)
(*                                                                         *)
(* JavaScript strings are TLA+ strings; a character is a string of length   *)
(* one.  One invocation of the email handler is modelled; its suspension    *)
(* points (every store read, every forward attempt) separate the actions.   *)
(***************************************************************************)
EXTENDS Integers, Sequences, FiniteSets, TLC

(***************************************************************************)
(* String primitives (the JavaScript String methods the worker uses)       *)
(***************************************************************************)

CharAt(s, i) == SubSeq(s, i, i)

CharsOf(s) == { CharAt(s, i) : i \in 1..Len(s) }

\* s.startsWith(prefix)
StartsWith(s, prefix) ==
    /\ Len(prefix) <= Len(s)
    /\ SubSeq(s, 1, Len(prefix)) = prefix

\* s.indexOf(sub), 1-based; 0 when sub does not occur (JavaScript: -1)
IndexOf(s, sub) ==
    LET hits == { i \in 1..(Len(s) - Len(sub) + 1) :
                    SubSeq(s, i, i + Len(sub) - 1) = sub }
    IN  IF hits = {} THEN 0 ELSE CHOOSE i \in hits : \A j \in hits : i <= j

\* s.includes(sub)
Includes(s, sub) == IndexOf(s, sub) > 0

UpperCaseLetters == "ABCDEFGHIJKLMNOPQRSTUVWXYZ"
LowerCaseLetters == "abcdefghijklmnopqrstuvwxyz"
Digits == "0123456789"

LowerChar(c) ==
    LET i == IndexOf(UpperCaseLetters, c)
    IN  IF i > 0 THEN CharAt(LowerCaseLetters, i) ELSE c

\* s.toLowerCase()
RECURSIVE ToLowerCase(_)
ToLowerCase(s) ==
    IF s = "" THEN ""
    ELSE LowerChar(CharAt(s, 1)) \o ToLowerCase(SubSeq(s, 2, Len(s)))

WhiteSpace == { " ", "\t" }

RECURSIVE TrimStart(_)
TrimStart(s) ==
    IF s # "" /\ CharAt(s, 1) \in WhiteSpace
    THEN TrimStart(SubSeq(s, 2, Len(s)))
    ELSE s

RECURSIVE TrimEnd(_)
TrimEnd(s) ==
    IF s # "" /\ CharAt(s, Len(s)) \in WhiteSpace
    THEN TrimEnd(SubSeq(s, 1, Len(s) - 1))
    ELSE s

\* s.trim()
Trim(s) == TrimEnd(TrimStart(s))

\* s.split(separator) for a non-empty separator: "".split(",") is <<"">>
RECURSIVE Split(_, _)
Split(s, separator) ==
    LET i == IndexOf(s, separator)
    IN  IF i = 0 THEN << s >>
        ELSE << SubSeq(s, 1, i - 1) >>
             \o Split(SubSeq(s, i + Len(separator), Len(s)), separator)

\* array.includes(x)
ArrayIncludes(array, x) == \E i \in 1..Len(array) : array[i] = x

\* array.map(s => s.trim())
MapTrim(array) == [ i \in 1..Len(array) |-> Trim(array[i]) ]

(***************************************************************************)
(* Fixed and default configuration                                         *)
(***************************************************************************)

RECOVERABLE_FORWARD_EXCEPTION_MESSAGE_PREFIX == "forwarding error"

CLOUDFLARE_FORWARDING_TRANSPORT_ERROR_MESSAGE_PREFIX == "could not send email"
CLOUDFLARE_FORWARDING_UNVERIFIED_ADDRESS_MESSAGE_PREFIX ==
    "destination address not verified"

\* The pattern of DEFAULTS.FORMAT_VALID_EMAIL_ADDRESS_REGEXP as the RegExp
\* constructor receives it: the literal is a double-quoted string, in which
\* "\." is ".", so the separator between domain labels is any character.
\* (The grave accent and the three mis-encoded characters of the local-part
\* class cannot be written in a TLA+ string; no address here contains them.)
DefaultEmailAddressRegExp ==
    "^[a-zA-Z0-9.!#$%&*+/=?^_{|}~-]+@[a-zA-Z0-9-]+(?:.[a-zA-Z0-9-]+)*$"

\* Mutant of DEFAULTS: every user is allowed and forwarded to an address
DEFAULTS_Forwarding ==
    [ CONSOLE_OUTPUT_LEVEL |-> "2",
      USE_STORED_ADDRESS_CONFIGURATION |-> "false",
      USE_STORED_USER_CONFIGURATION |-> "true",
      DESTINATION |-> "a@e.io",
      REJECT_TREATMENT |-> "Address does not exist",
      SUBADDRESSES |-> "*",
      USERS |-> "*",
      FORMAT_PRIMARY_ADDRESS_SEPARATOR |-> ",",
      FORMAT_BACKUP_ADDRESS_SEPARATOR |-> ":",
      FORMAT_LOCAL_PART_SEPARATOR |-> "+",
      FORMAT_REJECT_SEPARATOR |-> ";",
      FORMAT_VALID_CUSTOM_HEADER_REGEXP |-> "X-.*",
      FORMAT_VALID_EMAIL_ADDRESS_REGEXP |-> DefaultEmailAddressRegExp,
      CUSTOM_HEADER |-> "X-My-Email-Forwarding",
      CUSTOM_HEADER_FAIL |-> "fail",
      CUSTOM_HEADER_PASS |-> "pass",
      CLOUDFLARE_RECOVERABLE_FORWARDING_ERROR_REGEXP |-> ".*" ]

\* Mutant of DEFAULTS: the reject treatment is ': Invalid recipient'
DEFAULTS_InvalidRecipient ==
    [ CONSOLE_OUTPUT_LEVEL |-> "2",
      USE_STORED_ADDRESS_CONFIGURATION |-> "false",
      USE_STORED_USER_CONFIGURATION |-> "true",
      DESTINATION |-> "",
      REJECT_TREATMENT |-> ": Invalid recipient",
      SUBADDRESSES |-> "*",
      USERS |-> "",
      FORMAT_PRIMARY_ADDRESS_SEPARATOR |-> ",",
      FORMAT_BACKUP_ADDRESS_SEPARATOR |-> ":",
      FORMAT_LOCAL_PART_SEPARATOR |-> "+",
      FORMAT_REJECT_SEPARATOR |-> ";",
      FORMAT_VALID_CUSTOM_HEADER_REGEXP |-> "X-.*",
      FORMAT_VALID_EMAIL_ADDRESS_REGEXP |-> DefaultEmailAddressRegExp,
      CUSTOM_HEADER |-> "X-My-Email-Forwarding",
      CUSTOM_HEADER_FAIL |-> "fail",
      CUSTOM_HEADER_PASS |-> "pass",
      CLOUDFLARE_RECOVERABLE_FORWARDING_ERROR_REGEXP |-> ".*" ]

DEFAULTS ==
    [ CONSOLE_OUTPUT_LEVEL |-> "2",
      USE_STORED_ADDRESS_CONFIGURATION |-> "false",
      USE_STORED_USER_CONFIGURATION |-> "true",
      DESTINATION |-> "",
      REJECT_TREATMENT |-> "Address does not exist",
      SUBADDRESSES |-> "*",
      USERS |-> "",
      FORMAT_PRIMARY_ADDRESS_SEPARATOR |-> ",",
      FORMAT_BACKUP_ADDRESS_SEPARATOR |-> ":",
      FORMAT_LOCAL_PART_SEPARATOR |-> "+",
      FORMAT_REJECT_SEPARATOR |-> ";",
      FORMAT_VALID_CUSTOM_HEADER_REGEXP |-> "X-.*",
      FORMAT_VALID_EMAIL_ADDRESS_REGEXP |-> DefaultEmailAddressRegExp,
      CUSTOM_HEADER |-> "X-My-Email-Forwarding",
      CUSTOM_HEADER_FAIL |-> "fail",
      CUSTOM_HEADER_PASS |-> "pass",
      CLOUDFLARE_RECOVERABLE_FORWARDING_ERROR_REGEXP |-> ".*" ]

(***************************************************************************)
(* Regular expressions.  The worker builds every RegExp from a             *)
(* configuration string; the patterns below are the shapes that the        *)
(* defaults and the test suites configure, each matched as JavaScript      *)
(* matches it (unanchored unless the pattern anchors itself).              *)
(***************************************************************************)

EmailLocalChars ==
    CharsOf(LowerCaseLetters) \cup CharsOf(UpperCaseLetters) \cup CharsOf(Digits)
        \cup CharsOf(".!#$%&*+/=?^_{|}~-")

EmailDomainChars ==
    CharsOf(LowerCaseLetters) \cup CharsOf(UpperCaseLetters) \cup CharsOf(Digits)
        \cup { "-" }

\* ^[local]+@[domain]+(?:.[domain]+)*$
MatchesEmailAddressRegExp(address) ==
    LET at == IndexOf(address, "@")
        domain == SubSeq(address, at + 1, Len(address))
    IN  /\ at > 1
        /\ \A i \in 1..(at - 1) : CharAt(address, i) \in EmailLocalChars
        /\ Len(domain) >= 1
        /\ CharAt(domain, 1) \in EmailDomainChars
        /\ CharAt(domain, Len(domain)) \in EmailDomainChars
        /\ \A i \in 1..(Len(domain) - 1) :
              \/ CharAt(domain, i) \in EmailDomainChars
              \/ CharAt(domain, i + 1) \in EmailDomainChars

\* new RegExp(pattern).test(s)
RegExpTest(pattern, s) ==
    CASE pattern = ".*" -> TRUE
      [] pattern = DefaultEmailAddressRegExp -> MatchesEmailAddressRegExp(s)
      [] StartsWith(pattern, "^(") /\ CharAt(pattern, Len(pattern)) = ")" ->
            StartsWith(s, SubSeq(pattern, 3, Len(pattern) - 1))
      [] Len(pattern) > 2 /\ SubSeq(pattern, Len(pattern) - 1, Len(pattern)) = ".*" ->
            Includes(s, SubSeq(pattern, 1, Len(pattern) - 2))
      [] OTHER -> Includes(s, pattern)

\* FIXED.startsWithNonAlphanumericRegExp: /^[^A-Z0-9]/i
StartsWithNonAlphanumeric(s) ==
    /\ s # ""
    /\ CharAt(s, 1) \notin
          CharsOf(LowerCaseLetters) \cup CharsOf(UpperCaseLetters) \cup CharsOf(Digits)

\* FIXED.prepend(base, prependConditions); a condition is
\* [isRegExp |-> BOOLEAN, test |-> string, prepend |-> string], its test
\* either a string prefix or FIXED.startsWithNonAlphanumericRegExp
RECURSIVE prepend(_, _)
prepend(base, prependConditions) ==
    IF prependConditions = << >> THEN base
    ELSE LET prependCondition == Head(prependConditions)
             shouldPrepend ==
                 \/ ~prependCondition.isRegExp /\ StartsWith(base, prependCondition.test)
                 \/ prependCondition.isRegExp /\ StartsWithNonAlphanumeric(base)
         IN  IF shouldPrepend THEN prependCondition.prepend \o base
             ELSE prepend(base, Tail(prependConditions))

\* Mutant of isValidEmailAddress: every candidate that is not empty is valid
isValidEmailAddress_NonEmpty(address, validAddressRegExp) == address # ""

isValidEmailAddress(address, validAddressRegExp) ==
    RegExpTest(validAddressRegExp, address)

(***************************************************************************)
(* State of one invocation of the email handler                            *)
(***************************************************************************)

VARIABLES
    environment,    \* the environment argument: configuration name -> string
    store,          \* the content of MAP, the key-value store: key -> string
    to,             \* message.to
    pc,             \* the handler's position (see PositionValues)
    loaded,         \* results of the storedConfigurationValue calls so far
    storeReads,     \* keys passed to MAP.get so far, in order
    primaries,      \* the running forwardToPrimaryDestination calls
    forwardCalls,   \* calls of message.forward so far, in order
    rejectCalls,    \* reasons passed to message.setReject so far, in order
    consoleOutputCalls, \* records passed to consoleOutput at levels warn and info
    exception,      \* what the handler threw, when pc = "Raised"
    other           \* the state of another invocation of the handler, which
                    \* is suspended at an await or has ended (see Switch)

vars == << environment, store, to, pc, loaded, storeReads, primaries,
           forwardCalls, rejectCalls, consoleOutputCalls, exception, other >>

PositionValues ==
    { "LoadGlobal", "LoadUser", "CheckAllowed", "AcceptForwarding", "RejectForwarding",
      "Accepted", "RejectForwarded", "DirectRejected", "Raised" }

\* { ...DEFAULTS, ...environment }
Configured(name) ==
    IF name \in DOMAIN environment THEN environment[name] ELSE DEFAULTS[name]

FORMAT_PRIMARY_ADDRESS_SEPARATOR == Configured("FORMAT_PRIMARY_ADDRESS_SEPARATOR")
FORMAT_BACKUP_ADDRESS_SEPARATOR == Configured("FORMAT_BACKUP_ADDRESS_SEPARATOR")
FORMAT_LOCAL_PART_SEPARATOR == Configured("FORMAT_LOCAL_PART_SEPARATOR")
FORMAT_REJECT_SEPARATOR == Configured("FORMAT_REJECT_SEPARATOR")
REJECT_TREATMENT == Configured("REJECT_TREATMENT")

booleanFromString(stringBoolean) ==
    ToLowerCase(Trim(stringBoolean)) \in { "true", "1" }

\* The value of an optional string: undefined, or a string (possibly "")
undefined == [ defined |-> FALSE, value |-> "" ]
Defined(string) == [ defined |-> TRUE, value |-> string ]

\* Mutant of Coalesce: a stored empty string falls back as well (|| for ??)
Coalesce_Falsy(stored, fallback) ==
    IF stored.defined /\ stored.value # "" THEN stored.value ELSE fallback

\* stored ?? fallback
Coalesce(stored, fallback) ==
    IF stored.defined THEN stored.value ELSE fallback

\* Mutant of storedConfigurationValue: the store is read whatever the switch
storedConfigurationValue_Ungated(shouldLoad, key) ==
    IF key \in DOMAIN store THEN Defined(store[key]) ELSE undefined

\* MAP.get(key) returns null for a key that is not stored
storedConfigurationValue(shouldLoad, key) ==
    IF shouldLoad /\ key \in DOMAIN store THEN Defined(store[key]) ELSE undefined

useStoredAddressConfiguration ==
    booleanFromString(Configured("USE_STORED_ADDRESS_CONFIGURATION"))
useStoredUserConfiguration ==
    booleanFromString(Configured("USE_STORED_USER_CONFIGURATION"))

GlobalKeys == << "@DESTINATION", "@REJECT_TREATMENT", "@SUBADDRESSES", "@USERS" >>

globalDestination == Trim(Coalesce(loaded[1], Configured("DESTINATION")))
globalRejectTreatment == Trim(Coalesce(loaded[2], REJECT_TREATMENT))
globalSubaddresses == ToLowerCase(Trim(Coalesce(loaded[3], Configured("SUBADDRESSES"))))
globalUsers == ToLowerCase(Trim(Coalesce(loaded[4], Configured("USERS"))))

recoverableForwardImplementationErrorRegExp ==
    Configured("CLOUDFLARE_RECOVERABLE_FORWARDING_ERROR_REGEXP")

\* Mutant of customHeaderIsValid: every custom header name is accepted
customHeaderIsValid_Always == TRUE

customHeaderIsValid ==
    RegExpTest(Configured("FORMAT_VALID_CUSTOM_HEADER_REGEXP"),
               Trim(Configured("CUSTOM_HEADER")))
customHeader == Trim(Configured("CUSTOM_HEADER"))
\* Mutant of customHeaderFail: the reject forward carries the pass value
customHeaderFail_AsPass == Trim(Configured("CUSTOM_HEADER_PASS"))

customHeaderFail == Trim(Configured("CUSTOM_HEADER_FAIL"))
customHeaderPass == Trim(Configured("CUSTOM_HEADER_PASS"))

\* Mutant of addressLocalParts: the local part is not lower-cased
addressLocalParts_KeepingCase(localPart, formatLocalPartSeparator) ==
    LET firstLocalPartSeparatorIndex == IndexOf(localPart, formatLocalPartSeparator)
    IN  IF firstLocalPartSeparatorIndex > 0
        THEN << SubSeq(localPart, 1, firstLocalPartSeparatorIndex - 1),
                SubSeq(localPart,
                       firstLocalPartSeparatorIndex + Len(formatLocalPartSeparator),
                       Len(localPart)) >>
        ELSE << localPart, "" >>

\* Returns <<user, subaddress>>, both in lower case
addressLocalParts(localPart, formatLocalPartSeparator) ==
    LET lowerCaseLocalPart == ToLowerCase(localPart)
        firstLocalPartSeparatorIndex ==
            IndexOf(lowerCaseLocalPart, formatLocalPartSeparator)
    IN  IF firstLocalPartSeparatorIndex > 0
        THEN << SubSeq(lowerCaseLocalPart, 1, firstLocalPartSeparatorIndex - 1),
                SubSeq(lowerCaseLocalPart,
                       firstLocalPartSeparatorIndex + Len(formatLocalPartSeparator),
                       Len(lowerCaseLocalPart)) >>
        ELSE << lowerCaseLocalPart, "" >>

messageLocalPart == Split(to, "@")[1]
messageUser == addressLocalParts(messageLocalPart, FORMAT_LOCAL_PART_SEPARATOR)[1]
messageSubaddress == addressLocalParts(messageLocalPart, FORMAT_LOCAL_PART_SEPARATOR)[2]

UserKeys == << messageUser, messageUser \o FORMAT_LOCAL_PART_SEPARATOR >>

userDestinationWithRejectTreatment == loaded[5]

\* Mutant of userSubaddresses: a stored empty value defers to the global
\* allowed subaddresses (|| for ??)
userSubaddresses_EmptyDefers ==
    IF loaded[6].defined /\ Trim(loaded[6].value) # ""
    THEN ToLowerCase(Trim(loaded[6].value))
    ELSE globalSubaddresses

userSubaddresses ==
    IF loaded[6].defined THEN ToLowerCase(Trim(loaded[6].value))
    ELSE globalSubaddresses
\* Mutant of userRequiresSubaddress: a subaddress is never mandatory
userRequiresSubaddress_Never == FALSE

userRequiresSubaddress == StartsWith(userSubaddresses, FORMAT_LOCAL_PART_SEPARATOR)
userConcreteSubaddresses ==
    Trim(IF StartsWith(userSubaddresses, FORMAT_LOCAL_PART_SEPARATOR)
         THEN SubSeq(userSubaddresses, Len(FORMAT_LOCAL_PART_SEPARATOR) + 1,
                     Len(userSubaddresses))
         ELSE userSubaddresses)

\* Mutant of OrElse: only an undefined segment falls back (?? for ||)
OrElse_Nullish(x, fallback) == IF x.defined THEN x.value ELSE fallback

\* x || fallback for a string x that may be undefined: "" is falsy
OrElse(x, fallback) == IF x.defined /\ x.value # "" THEN x.value ELSE fallback

\* stored?.split(FORMAT_REJECT_SEPARATOR).at(index)?.trim(), index from 0
RejectSegment(stored, index) ==
    IF ~stored.defined THEN undefined
    ELSE LET segments == Split(stored.value, FORMAT_REJECT_SEPARATOR)
         IN  IF index + 1 <= Len(segments) THEN Defined(Trim(segments[index + 1]))
             ELSE undefined

userDestination ==
    OrElse(RejectSegment(userDestinationWithRejectTreatment, 0), globalDestination)
userRejectTreatment ==
    OrElse(RejectSegment(userDestinationWithRejectTreatment, 1), globalRejectTreatment)

\* Mutant of messageUserIsAllowed: a stored user key with an empty value
\* does not allow the user
messageUserIsAllowed_NonEmptyValue ==
    \/ userDestinationWithRejectTreatment.defined
       /\ userDestinationWithRejectTreatment.value # ""
    \/ globalUsers = "*"
    \/ ArrayIncludes(MapTrim(Split(globalUsers, FORMAT_PRIMARY_ADDRESS_SEPARATOR)),
                     messageUser)

messageUserIsAllowed ==
    \/ userDestinationWithRejectTreatment.defined
    \/ globalUsers = "*"
    \/ ArrayIncludes(MapTrim(Split(globalUsers, FORMAT_PRIMARY_ADDRESS_SEPARATOR)),
                     messageUser)

messageSubaddressIsAllowed ==
    IF messageSubaddress = "" THEN ~userRequiresSubaddress
    ELSE \/ userConcreteSubaddresses = "*"
         \/ ArrayIncludes(
                MapTrim(Split(userConcreteSubaddresses, FORMAT_PRIMARY_ADDRESS_SEPARATOR)),
                messageSubaddress)

(***************************************************************************)
(* Destination validation                                                  *)
(***************************************************************************)

\* Mutant of ValidationContext: the local part of the recipient as received
\* stands for the message user
ValidationContext_WithLocalPart ==
    [ messageUser |-> messageLocalPart,
      localPartSeparator |-> FORMAT_LOCAL_PART_SEPARATOR,
      backupAddressSeparator |-> FORMAT_BACKUP_ADDRESS_SEPARATOR,
      primaryAddressSeparator |-> FORMAT_PRIMARY_ADDRESS_SEPARATOR,
      validEmailAddressRegExp |-> Configured("FORMAT_VALID_EMAIL_ADDRESS_REGEXP") ]

\* What the validation functions close over: the message user and the
\* format configuration
ValidationContext ==
    [ messageUser |-> messageUser,
      localPartSeparator |-> FORMAT_LOCAL_PART_SEPARATOR,
      backupAddressSeparator |-> FORMAT_BACKUP_ADDRESS_SEPARATOR,
      primaryAddressSeparator |-> FORMAT_PRIMARY_ADDRESS_SEPARATOR,
      validEmailAddressRegExp |-> Configured("FORMAT_VALID_EMAIL_ADDRESS_REGEXP") ]

\* The reduce of validatePrimaryDestination over the backup candidates
RECURSIVE validateBackups(_, _, _)
validateBackups(newPrimaryDestination, basicDestinations, context) ==
    IF basicDestinations = << >> THEN newPrimaryDestination
    ELSE LET backupDestination ==
                 prepend(Trim(Head(basicDestinations)),
                         << [ isRegExp |-> FALSE, test |-> context.localPartSeparator,
                              prepend |-> context.messageUser ],
                            [ isRegExp |-> FALSE, test |-> "@",
                              prepend |-> context.messageUser ] >>)
             next ==
                 IF isValidEmailAddress(backupDestination,
                                        context.validEmailAddressRegExp)
                 THEN [ newPrimaryDestination EXCEPT
                          !.validBackup = Append(@, backupDestination) ]
                 ELSE IF backupDestination # ""
                 THEN [ newPrimaryDestination EXCEPT
                          !.invalidBackup = Append(@, backupDestination) ]
                 ELSE newPrimaryDestination
         IN  validateBackups(next, Tail(basicDestinations), context)

validatePrimaryDestination(primaryDestinationText, context) ==
    validateBackups([ validBackup |-> << >>, invalidBackup |-> << >> ],
                    Split(primaryDestinationText, context.backupAddressSeparator),
                    context)

\* Mutant of IsNewBackup: every valid backup is kept
IsNewBackup_Always(validBackup, destination) == TRUE

\* Whether a valid backup is kept: it is not yet in the compound destination
IsNewBackup(validBackup, destination) == ~ArrayIncludes(validBackup, destination)

\* The inner reduce of validateCompoundDestination: the valid backups of one
\* primary against the addresses the compound destination already holds.
\* Returns the compound destination and the deduplicated primary.
RECURSIVE dedupeBackups(_, _, _)
dedupeBackups(newCompoundDestination, newPrimaryDestination, validBackup) ==
    IF validBackup = << >>
    THEN [ compound |-> newCompoundDestination, primary |-> newPrimaryDestination ]
    ELSE LET destination == Head(validBackup)
         IN  IF IsNewBackup(newCompoundDestination.validBackup, destination)
             THEN dedupeBackups(
                      [ newCompoundDestination EXCEPT
                          !.validBackup = Append(@, destination) ],
                      Append(newPrimaryDestination, destination),
                      Tail(validBackup))
             ELSE dedupeBackups(
                      [ newCompoundDestination EXCEPT
                          !.duplicateBackup = Append(@, destination) ],
                      newPrimaryDestination,
                      Tail(validBackup))

\* The outer reduce of validateCompoundDestination.  The result of
\* invalidBackup.concat(...) is discarded, so invalidBackup stays as it was.
RECURSIVE validatePrimaries(_, _, _)
validatePrimaries(newCompoundDestination, primaryDestinationTexts, context) ==
    IF primaryDestinationTexts = << >> THEN newCompoundDestination
    ELSE LET nonDedupedPrimaryDestination ==
                 validatePrimaryDestination(Head(primaryDestinationTexts), context)
             deduped ==
                 dedupeBackups(newCompoundDestination, << >>,
                               nonDedupedPrimaryDestination.validBackup)
             next ==
                 IF Len(deduped.primary) > 0
                 THEN [ deduped.compound EXCEPT
                          !.validPrimary = Append(@, deduped.primary) ]
                 ELSE deduped.compound
         IN  validatePrimaries(next, Tail(primaryDestinationTexts), context)

validateCompoundDestination(compoundDestinationText) ==
    validatePrimaries(
        [ validPrimary |-> << >>, validBackup |-> << >>,
          invalidBackup |-> << >>, duplicateBackup |-> << >> ],
        Split(compoundDestinationText, FORMAT_PRIMARY_ADDRESS_SEPARATOR),
        ValidationContext)

(***************************************************************************)
(* Forwarding                                                              *)
(***************************************************************************)

\* A call message.forward(destination, new Headers({[headerName]: headerValue}))
ForwardCall(destination, headerValue, actionType, primaryDestinationId, s) ==
    [ destination |-> destination,
      headerName |-> customHeader,
      headerValue |-> headerValue,
      actionType |-> actionType,
      primaryDestinationId |-> primaryDestinationId,
      backupDestinationId |-> s + 1,
      status |-> "pending",          \* then "resolved" or "rejected"
      errorMessage |-> "" ]

\* forwardToPrimaryDestination up to its first await: message.forward has been
\* called on the first backup; call is the index of that call in forwardCalls.
\* (validateCompoundDestination never yields an empty primary destination.)
PrimaryStarted(primaryDestination, call) ==
    [ primaryDestination |-> primaryDestination,
      s |-> 0,
      wasSuccessful |-> FALSE,
      hadRecoverableError |-> FALSE,
      errorMessages |-> << >>,
      errors |-> << >>,
      call |-> call,
      returned |-> FALSE ]

\* Mutant of IsRecoverable: only transport errors are recoverable
IsRecoverable_TransportOnly(errorMessage) ==
    StartsWith(errorMessage, CLOUDFLARE_FORWARDING_TRANSPORT_ERROR_MESSAGE_PREFIX)

\* The error classification of the catch block
IsRecoverable(errorMessage) ==
    RegExpTest(recoverableForwardImplementationErrorRegExp, errorMessage)

\* The try block after the awaited forward resolved: success, break, return
PrimaryAfterSuccess(primary) ==
    [ primary EXCEPT !.wasSuccessful = TRUE, !.returned = TRUE ]

\* Whether the for loop has a backup left after s failures
HasNextBackup(primaryDestination, s) == s < Len(primaryDestination)

\* Mutant of PrimaryAfterFailure: the loop does not advance to the next backup
PrimaryAfterFailure_NoAdvance(primary, primaryDestinationId, errorMessage, nextCall) ==
    [ primary EXCEPT
        !.errorMessages =
            Append(@, [ primaryDestinationId |-> primaryDestinationId,
                        backupDestinationId |-> primary.s + 1,
                        backupDestination |-> primary.primaryDestination[primary.s + 1],
                        errorMessage |-> errorMessage ]),
        !.errors = Append(@, errorMessage),
        !.hadRecoverableError = @ \/ IsRecoverable(errorMessage),
        !.call = IF HasNextBackup(primary.primaryDestination, primary.s + 1)
                 THEN nextCall ELSE @,
        !.returned = ~HasNextBackup(primary.primaryDestination, primary.s + 1) ]

\* Mutant of PrimaryAfterFailure: only the last failure is classified
PrimaryAfterFailure_LastErrorOnly(primary, primaryDestinationId, errorMessage, nextCall) ==
    [ primary EXCEPT
        !.errorMessages =
            Append(@, [ primaryDestinationId |-> primaryDestinationId,
                        backupDestinationId |-> primary.s + 1,
                        backupDestination |-> primary.primaryDestination[primary.s + 1],
                        errorMessage |-> errorMessage ]),
        !.errors = Append(@, errorMessage),
        !.hadRecoverableError = IsRecoverable(errorMessage),
        !.s = @ + 1,
        !.call = IF HasNextBackup(primary.primaryDestination, primary.s + 1)
                 THEN nextCall ELSE @,
        !.returned = ~HasNextBackup(primary.primaryDestination, primary.s + 1) ]

\* The catch block after the awaited forward rejected, and s++; when a backup
\* is left the loop calls message.forward on it (call nextCall), otherwise the
\* function returns
PrimaryAfterFailure(primary, primaryDestinationId, errorMessage, nextCall) ==
    [ primary EXCEPT
        !.errorMessages =
            Append(@, [ primaryDestinationId |-> primaryDestinationId,
                        backupDestinationId |-> primary.s + 1,
                        backupDestination |-> primary.primaryDestination[primary.s + 1],
                        errorMessage |-> errorMessage ]),
        !.errors = Append(@, errorMessage),
        !.hadRecoverableError = @ \/ IsRecoverable(errorMessage),
        !.s = @ + 1,
        !.call = IF HasNextBackup(primary.primaryDestination, primary.s + 1)
                 THEN nextCall ELSE @,
        !.returned = ~HasNextBackup(primary.primaryDestination, primary.s + 1) ]

\* Mutant of successfulDestination: the first backup of the primary
successfulDestination_First(primary) ==
    IF primary.wasSuccessful THEN primary.primaryDestination[1] ELSE ""

\* PrimaryDestinationResult.successfulDestination; "" stands for null
successfulDestination(primary) ==
    IF primary.wasSuccessful THEN primary.primaryDestination[primary.s + 1] ELSE ""

\* Mutants of CompoundHadRecoverableError: a success elsewhere masks the
\* recoverable failure; a recoverable failure counts even when its primary
\* succeeded later; every failure counts
CompoundHadRecoverableError_MaskedBySuccess(primaryDestinationResults) ==
    /\ \E i \in 1..Len(primaryDestinationResults) :
          /\ ~primaryDestinationResults[i].wasSuccessful
          /\ primaryDestinationResults[i].hadRecoverableError
    /\ ~\E i \in 1..Len(primaryDestinationResults) :
          primaryDestinationResults[i].wasSuccessful

CompoundHadRecoverableError_IgnoringSuccess(primaryDestinationResults) ==
    \E i \in 1..Len(primaryDestinationResults) :
        primaryDestinationResults[i].hadRecoverableError

CompoundHadRecoverableError_AnyFailure(primaryDestinationResults) ==
    \E i \in 1..Len(primaryDestinationResults) :
        ~primaryDestinationResults[i].wasSuccessful

\* Mutant of CompoundHadRecoverableError: recoverable errors are only logged
CompoundHadRecoverableError_Never(primaryDestinationResults) == FALSE

\* forwardToCompoundDestination's aggregation of primaryDestinationResults
CompoundHadRecoverableError(primaryDestinationResults) ==
    \E i \in 1..Len(primaryDestinationResults) :
        /\ ~primaryDestinationResults[i].wasSuccessful
        /\ primaryDestinationResults[i].hadRecoverableError

\* Mutants of CompoundWasSuccessful: no success is required; every primary
\* must succeed
CompoundWasSuccessful_WithoutSuccess(primaryDestinationResults) ==
    ~CompoundHadRecoverableError(primaryDestinationResults)

CompoundWasSuccessful_EveryPrimary(primaryDestinationResults) ==
    /\ ~CompoundHadRecoverableError(primaryDestinationResults)
    /\ \A i \in 1..Len(primaryDestinationResults) :
          primaryDestinationResults[i].wasSuccessful

CompoundWasSuccessful(primaryDestinationResults) ==
    /\ ~CompoundHadRecoverableError(primaryDestinationResults)
    /\ \E i \in 1..Len(primaryDestinationResults) :
          primaryDestinationResults[i].wasSuccessful

\* results.flatMap(result => result.errors)
RECURSIVE FlatErrors(_)
FlatErrors(primaryDestinationResults) ==
    IF primaryDestinationResults = << >> THEN << >>
    ELSE Head(primaryDestinationResults).errors
         \o FlatErrors(Tail(primaryDestinationResults))

\* errors.map(e => `"${e.message}"`).join(', ')
RECURSIVE JoinQuoted(_)
JoinQuoted(errors) ==
    IF errors = << >> THEN ""
    ELSE "\"" \o Head(errors) \o "\""
         \o (IF Len(errors) > 1 THEN ", " ELSE "") \o JoinQuoted(Tail(errors))

\* The message of new RecoverableForwardError(errors)
RecoverableForwardErrorMessage(errors) ==
    RECOVERABLE_FORWARD_EXCEPTION_MESSAGE_PREFIX \o ": (" \o JoinQuoted(errors) \o ")"

(***************************************************************************)
(* Direct reject                                                           *)
(***************************************************************************)

\* Mutant of userRejectReason: a candidate that includes '@' is not skipped
userRejectReason_KeepingAddresses ==
    IF userRejectTreatment # "" THEN userRejectTreatment
    ELSE IF globalRejectTreatment # "" THEN globalRejectTreatment
    ELSE IF Trim(REJECT_TREATMENT) # "" THEN Trim(REJECT_TREATMENT)
    ELSE Trim(DEFAULTS.REJECT_TREATMENT)

\* a && b || rest, for the candidates of the reject reason: a candidate is
\* taken when it does not include '@' and is truthy (not the empty string)
userRejectReason ==
    IF ~Includes(userRejectTreatment, "@") /\ userRejectTreatment # ""
    THEN userRejectTreatment
    ELSE IF ~Includes(globalRejectTreatment, "@") /\ globalRejectTreatment # ""
    THEN globalRejectTreatment
    ELSE IF ~Includes(REJECT_TREATMENT, "@") /\ Trim(REJECT_TREATMENT) # ""
    THEN Trim(REJECT_TREATMENT)
    ELSE Trim(DEFAULTS.REJECT_TREATMENT)

\* Mutant of fullRejectReason: the lower-cased message user is prepended
\* instead of the local part of the recipient address
fullRejectReason_WithMessageUser ==
    prepend(userRejectReason,
            << [ isRegExp |-> TRUE, test |-> "", prepend |-> messageUser ] >>)

fullRejectReason ==
    prepend(userRejectReason,
            << [ isRegExp |-> TRUE, test |-> "", prepend |-> messageLocalPart ] >>)

(***************************************************************************)
(* Inputs                                                                  *)
(***************************************************************************)

MaxPrimaries == 3   \* primary destinations in a configured destination
MaxBackups == 3     \* backup destinations in a configured primary destination

NumPrimaries(text) == Len(Split(text, DEFAULTS.FORMAT_PRIMARY_ADDRESS_SEPARATOR))
NumBackups(text) ==
    LET primaryTexts == Split(text, DEFAULTS.FORMAT_PRIMARY_ADDRESS_SEPARATOR)
        sizes == { Len(Split(primaryTexts[i], DEFAULTS.FORMAT_BACKUP_ADDRESS_SEPARATOR)) :
                     i \in 1..Len(primaryTexts) }
    IN  CHOOSE n \in sizes : \A m \in sizes : m <= n
WithinBounds(text) ==
    NumPrimaries(text) <= MaxPrimaries /\ NumBackups(text) <= MaxBackups

\* Configured destinations: one or several primaries, with and without
\* backups, with duplicates, with invalid candidates, with none
DestinationTexts ==
    { text \in
        { "", "missingdomain", "a@e.io", "a@e.io:b@e.io", "a@e.io, b@e.io",
          "a@e.io:b@e.io:c@e.io", "a@e.io:a@e.io:b@e.io,b@e.io:c@e.io",
          "a@e.io,b@e.io,c@e.io", "a@e.io:b@e.io:c@e.io:d@e.io",
          "a@e.io,b@e.io,c@e.io,d@e.io" } : WithinBounds(text) }

\* Configured reject treatments: reasons and reject-forward destinations
RejectTreatmentTexts ==
    { text \in
        { "No such recipient", ": spam", "r@e.io", "r@e.io:a@e.io", "r@e.io,s@e.io" } :
        WithinBounds(text) }

\* The messages message.forward may fail with
ForwardErrorMessages ==
    { CLOUDFLARE_FORWARDING_TRANSPORT_ERROR_MESSAGE_PREFIX,
      CLOUDFLARE_FORWARDING_UNVERIFIED_ADDRESS_MESSAGE_PREFIX }

RecoverableErrorRegExps ==
    { DEFAULTS.CLOUDFLARE_RECOVERABLE_FORWARDING_ERROR_REGEXP,
      "^(" \o CLOUDFLARE_FORWARDING_TRANSPORT_ERROR_MESSAGE_PREFIX \o ")" }

EmptyStore == [ key \in {} |-> "" ]

\* The local state of an invocation for the given recipient at its entry
FreshInvocation(recipient) ==
    [ to |-> recipient, pc |-> "LoadGlobal", loaded |-> << >>, storeReads |-> << >>,
      primaries |-> << >>, forwardCalls |-> << >>, rejectCalls |-> << >>,
      consoleOutputCalls |-> << >>, exception |-> "" ]

\* There is no other invocation
NoInvocation == [ FreshInvocation("") EXCEPT !.pc = "None" ]

\* The handler at its entry
InitInvocation ==
    /\ pc = "LoadGlobal"
    /\ loaded = << >>
    /\ storeReads = << >>
    /\ primaries = << >>
    /\ forwardCalls = << >>
    /\ rejectCalls = << >>
    /\ consoleOutputCalls = << >>
    /\ exception = ""

\* A single invocation of the handler at its entry
InitHandler ==
    /\ InitInvocation
    /\ other = NoInvocation

\* Failover scenarios: one allowed user, destinations and reject treatments
\* of every shape, both classifications of forwarding errors
InitFailover ==
    /\ to \in { "user1@domain.com", "user2@domain.com" }
    /\ store = EmptyStore
    /\ \E destination \in DestinationTexts, rejectTreatment \in RejectTreatmentTexts,
          regExp \in RecoverableErrorRegExps :
          environment =
              [ USERS |-> "user1",
                DESTINATION |-> destination,
                REJECT_TREATMENT |-> rejectTreatment,
                CLOUDFLARE_RECOVERABLE_FORWARDING_ERROR_REGEXP |-> regExp ]
    /\ InitHandler

\* Layered reject treatments: per user (store), global (store), environment
\* and default, each a reason, a reject-forward destination, empty or absent
InitRejectTreatment ==
    /\ to \in { "user1@domain.com", "User1+SubA@domain.com", "user2@domain.com" }
    /\ \E user \in { "none", "a@e.io", "a@e.io;user reason", ";", "a@e.io;r@e.io",
                     "missingdomain; : user" },
          global \in { "none", "", "stored reason", "s@e.io" } :
          store = [ key \in (IF user = "none" THEN {} ELSE { "user1" })
                              \cup (IF global = "none" THEN {} ELSE { "@REJECT_TREATMENT" })
                      |-> IF key = "user1" THEN user ELSE global ]
    /\ \E rejectTreatment \in { "default", "", "  ", "env reason", ": env", "r@e.io" },
          useStored \in { "true", "false" } :
          environment =
              [ name \in { "USERS", "DESTINATION", "USE_STORED_ADDRESS_CONFIGURATION",
                           "CLOUDFLARE_RECOVERABLE_FORWARDING_ERROR_REGEXP" }
                           \cup (IF rejectTreatment = "default" THEN {}
                                 ELSE { "REJECT_TREATMENT" })
                  |-> CASE name = "USERS" -> "user2"
                        [] name = "DESTINATION" -> "b@e.io"
                        [] name = "USE_STORED_ADDRESS_CONFIGURATION" -> useStored
                        [] name = "CLOUDFLARE_RECOVERABLE_FORWARDING_ERROR_REGEXP" ->
                              "^(" \o CLOUDFLARE_FORWARDING_TRANSPORT_ERROR_MESSAGE_PREFIX \o ")"
                        [] OTHER -> rejectTreatment ]
    /\ InitHandler

Init == InitFailover \/ InitRejectTreatment

(***************************************************************************)
(* The email handler, one action per continuation between two awaits       *)
(***************************************************************************)

Forwarding == pc \in { "AcceptForwarding", "RejectForwarding" }

\* warnAboutBadDestinations: one warn record for each non-empty list of bad
\* destinations
warnAboutBadDestinations(validatedCompoundDestination, destinationType) ==
    (IF Len(validatedCompoundDestination.invalidBackup) > 0
     THEN << [ level |-> "warn", messageUser |-> messageUser,
               issue |-> "invalidly formatted", destinationType |-> destinationType,
               destinations |-> validatedCompoundDestination.invalidBackup ] >>
     ELSE << >>)
    \o
    (IF Len(validatedCompoundDestination.duplicateBackup) > 0
     THEN << [ level |-> "warn", messageUser |-> messageUser,
               issue |-> "duplicate", destinationType |-> destinationType,
               destinations |-> validatedCompoundDestination.duplicateBackup ] >>
     ELSE << >>)

\* forwardToCompoundDestination up to the await of Promise.all: every primary
\* destination is started, in order, each calling message.forward on its
\* first backup.  outputs are the consoleOutput calls up to here.
StartCompoundForward(compoundDestination, actionType, headerValue, outputs) ==
    /\ primaries' =
          [ i \in 1..Len(compoundDestination) |->
              PrimaryStarted(compoundDestination[i], Len(forwardCalls) + i) ]
    /\ forwardCalls' = forwardCalls \o
          [ i \in 1..Len(compoundDestination) |->
              ForwardCall(compoundDestination[i][1], headerValue, actionType, i, 0) ]
    /\ consoleOutputCalls' = outputs
    /\ pc' = actionType

acceptCompoundDestination == validateCompoundDestination(userDestination)
rejectCompoundDestination == validateCompoundDestination(userRejectTreatment)

\* message.setReject(fullRejectReason)
DirectReject(rejectReason, outputs) ==
    /\ rejectCalls' = Append(rejectCalls, rejectReason)
    /\ consoleOutputCalls' =
          Append(outputs, [ level |-> "info", action |-> "DirectRejecting",
                            rejectReason |-> rejectReason ])
    /\ pc' = "DirectRejected"
    /\ UNCHANGED << primaries, forwardCalls >>

\* Mutant of RejectStage: the reject forward is skipped
RejectStage_WithoutRejectForward(validatedRejectTreatment, rejectReason, outputs) ==
    DirectReject(rejectReason, outputs)

\* Mutant of RejectStage: setReject is called before the reject forward
RejectStage_RejectingFirst(validatedRejectTreatment, rejectReason, outputs) ==
    IF Len(validatedRejectTreatment.validPrimary) > 0
    THEN /\ StartCompoundForward(
                validatedRejectTreatment.validPrimary, "RejectForwarding",
                customHeaderFail,
                outputs \o warnAboutBadDestinations(validatedRejectTreatment,
                                                    "RejectForward"))
         /\ rejectCalls' = Append(rejectCalls, rejectReason)
    ELSE DirectReject(rejectReason, outputs)

\* The handler from "if (!acceptForwardWasSuccessful)", entered when the
\* accept forward was not successful or was not attempted
RejectStage(validatedRejectTreatment, rejectReason, outputs) ==
    IF Len(validatedRejectTreatment.validPrimary) > 0
    THEN /\ StartCompoundForward(
                validatedRejectTreatment.validPrimary, "RejectForwarding",
                customHeaderFail,
                outputs \o warnAboutBadDestinations(validatedRejectTreatment,
                                                    "RejectForward"))
         /\ UNCHANGED rejectCalls
    ELSE DirectReject(rejectReason, outputs)

\* Mutant of AcceptStage: the allow check is skipped
AcceptStage_WithoutAllowCheck(isAllowed, validatedDestination, validatedRejectTreatment, rejectReason) ==
    /\ StartCompoundForward(
           validatedDestination.validPrimary, "AcceptForwarding", customHeaderPass,
           consoleOutputCalls \o warnAboutBadDestinations(validatedDestination,
                                                          "AcceptForward"))
    /\ UNCHANGED rejectCalls

\* The handler from the allow check, once the configuration is loaded
AcceptStage(isAllowed, validatedDestination, validatedRejectTreatment, rejectReason) ==
    IF isAllowed
    THEN /\ StartCompoundForward(
                validatedDestination.validPrimary, "AcceptForwarding",
                customHeaderPass,
                consoleOutputCalls \o warnAboutBadDestinations(validatedDestination,
                                                               "AcceptForward"))
         /\ UNCHANGED rejectCalls
    ELSE RejectStage(validatedRejectTreatment, rejectReason, consoleOutputCalls)

\* One awaited storedConfigurationValue of the global address configuration;
\* after the last one the custom header is validated
LoadGlobalConfiguration ==
    /\ pc = "LoadGlobal"
    /\ LET key == GlobalKeys[Len(loaded) + 1]
       IN  /\ loaded' = Append(loaded,
                               storedConfigurationValue(useStoredAddressConfiguration, key))
           /\ storeReads' = IF useStoredAddressConfiguration
                            THEN Append(storeReads, key) ELSE storeReads
    /\ IF Len(loaded) + 1 < Len(GlobalKeys)
       THEN UNCHANGED << pc, exception >>
       ELSE IF customHeaderIsValid
       THEN pc' = "LoadUser" /\ UNCHANGED exception
       ELSE /\ pc' = "Raised"
            /\ exception' = "Invalid custom header " \o Trim(Configured("CUSTOM_HEADER"))
    /\ UNCHANGED << other, environment, store, to, primaries, forwardCalls, rejectCalls,
                    consoleOutputCalls >>

\* One awaited storedConfigurationValue of the user configuration
LoadUserConfiguration ==
    /\ pc = "LoadUser"
    /\ LET key == UserKeys[Len(loaded) - Len(GlobalKeys) + 1]
       IN  /\ loaded' = Append(loaded,
                               storedConfigurationValue(useStoredUserConfiguration, key))
           /\ storeReads' = IF useStoredUserConfiguration
                            THEN Append(storeReads, key) ELSE storeReads
    /\ pc' = IF Len(loaded) + 1 < Len(GlobalKeys) + Len(UserKeys)
             THEN "LoadUser" ELSE "CheckAllowed"
    /\ UNCHANGED << other, environment, store, to, primaries, forwardCalls, rejectCalls,
                    consoleOutputCalls, exception >>

\* The handler resumes with the configuration loaded and runs on to its next
\* await or to its end
CheckAllowed ==
    /\ pc = "CheckAllowed"
    /\ AcceptStage(messageUserIsAllowed /\ messageSubaddressIsAllowed,
                   acceptCompoundDestination, rejectCompoundDestination,
                   fullRejectReason)
    /\ UNCHANGED << other, environment, store, to, loaded, storeReads, exception >>

\* The forward awaited by primary destination p resolves
ForwardResolves(p) ==
    /\ Forwarding
    /\ p \in 1..Len(primaries)
    /\ ~primaries[p].returned
    /\ forwardCalls' = [ forwardCalls EXCEPT ![primaries[p].call].status = "resolved" ]
    /\ primaries' = [ primaries EXCEPT ![p] = PrimaryAfterSuccess(@) ]
    /\ UNCHANGED << other, environment, store, to, pc, loaded, storeReads, rejectCalls,
                    consoleOutputCalls, exception >>

\* The forward awaited by primary destination p rejects with errorMessage
ForwardRejects(p, errorMessage) ==
    /\ Forwarding
    /\ p \in 1..Len(primaries)
    /\ ~primaries[p].returned
    /\ LET primary == primaries[p]
           settled == [ forwardCalls EXCEPT ![primary.call].status = "rejected",
                                            ![primary.call].errorMessage = errorMessage ]
           after == PrimaryAfterFailure(primary, p, errorMessage, Len(forwardCalls) + 1)
       IN  /\ primaries' = [ primaries EXCEPT ![p] = after ]
           /\ forwardCalls' =
                 IF after.returned THEN settled
                 ELSE Append(settled,
                             ForwardCall(primary.primaryDestination[after.s + 1],
                                         settled[primary.call].headerValue,
                                         pc, p, after.s))
    /\ UNCHANGED << other, environment, store, to, pc, loaded, storeReads, rejectCalls,
                    consoleOutputCalls, exception >>

\* Mutant of AllPrimariesReturned: the first failed primary settles the
\* compound forward (Promise.all over primaries that throw)
AllPrimariesReturned_FailFast(results) ==
    \/ \A p \in 1..Len(results) : results[p].returned
    \/ \E p \in 1..Len(results) : results[p].returned /\ ~results[p].wasSuccessful

\* Mutant of AllPrimariesReturned: Promise.all settles only when every
\* primary has succeeded
AllPrimariesReturned_OnlyWhenSuccessful(results) ==
    \A p \in 1..Len(results) : results[p].returned /\ results[p].wasSuccessful

\* Promise.all resolves once every forwardToPrimaryDestination has returned
AllPrimariesReturned(results) ==
    \A p \in 1..Len(results) : results[p].returned

\* results.map(result => result.successfulDestination).filter(Boolean)
RECURSIVE successfulDestinations(_)
successfulDestinations(primaryDestinationResults) ==
    IF primaryDestinationResults = << >> THEN << >>
    ELSE (IF Head(primaryDestinationResults).wasSuccessful
          THEN << successfulDestination(Head(primaryDestinationResults)) >>
          ELSE << >>)
         \o successfulDestinations(Tail(primaryDestinationResults))

\* The status forwardToCompoundDestination logs
CompoundStatus(primaryDestinationResults) ==
    IF CompoundWasSuccessful(primaryDestinationResults) THEN "SuccessfulForwarding"
    ELSE IF CompoundHadRecoverableError(primaryDestinationResults)
    THEN "RecoverableErrorForwarding"
    ELSE "UnrecoverableErrorForwarding"

\* Promise.all resolves: the rest of forwardToCompoundDestination, then the
\* handler up to its next await or to its end
CompoundForwardSettles ==
    /\ Forwarding
    /\ AllPrimariesReturned(primaries)
    /\ UNCHANGED << other, environment, store, to, loaded, storeReads >>
    /\ LET outputs ==
               Append(consoleOutputCalls,
                      [ level |-> "info", action |-> pc,
                        status |-> CompoundStatus(primaries),
                        successfulDestinations |-> successfulDestinations(primaries) ])
       IN  IF CompoundHadRecoverableError(primaries)
           THEN /\ pc' = "Raised"
                /\ exception' = RecoverableForwardErrorMessage(FlatErrors(primaries))
                /\ consoleOutputCalls' = outputs
                /\ UNCHANGED << primaries, forwardCalls, rejectCalls >>
           ELSE /\ UNCHANGED exception
                /\ IF CompoundWasSuccessful(primaries)
                   THEN /\ pc' = IF pc = "AcceptForwarding" THEN "Accepted"
                                 ELSE "RejectForwarded"
                        /\ consoleOutputCalls' = outputs
                        /\ UNCHANGED << primaries, forwardCalls, rejectCalls >>
                   ELSE IF pc = "AcceptForwarding"
                        THEN RejectStage(rejectCompoundDestination, fullRejectReason,
                                         outputs)
                        ELSE DirectReject(fullRejectReason, outputs)

Next ==
    \/ LoadGlobalConfiguration
    \/ LoadUserConfiguration
    \/ CheckAllowed
    \/ \E p \in 1..MaxPrimaries : ForwardResolves(p)
    \/ \E p \in 1..MaxPrimaries, errorMessage \in ForwardErrorMessages :
          ForwardRejects(p, errorMessage)
    \/ CompoundForwardSettles

Spec == Init /\ [][Next]_vars

(***************************************************************************)
(* Configuration scenarios: the layers of the address configuration (user  *)
(* keys of the store, '@' keys of the store, environment, defaults) in     *)
(* every combination of present, empty and absent                          *)
(***************************************************************************)

\* Marks a configuration name or a store key that is not set
Absent == "(absent)"

\* The environment or the store with the given <<name, value>> entries,
\* without the entries marked Absent
ConfigurationOf(entries) ==
    [ name \in { entry[1] : entry \in { e \in entries : e[2] # Absent } } |->
        (CHOOSE entry \in entries : entry[1] = name)[2] ]

\* Only transport errors are recoverable, as in the failover scenarios
TransportErrorsOnly ==
    << "CLOUDFLARE_RECOVERABLE_FORWARDING_ERROR_REGEXP",
       "^(" \o CLOUDFLARE_FORWARDING_TRANSPORT_ERROR_MESSAGE_PREFIX \o ")" >>

\* Allowed users: the user key of the store (absent, empty, with and without
\* segments), the stored and the configured allowed users, both switches;
\* one recipient has no user part
InitAllowedUsers ==
    /\ to \in { "user1@domain.com", "User1@domain.com", "user3@domain.com",
                "+sub@domain.com" }
    /\ \E user \in { Absent, "", "u@e.io", ";user reason", " ; ", "u@e.io;v@e.io",
                     "U@e.io ; : gone" },
          storedUsers \in { Absent, "", "*", "user3" } :
          store = ConfigurationOf({ << "user1", user >>, << "@USERS", storedUsers >> })
    /\ \E users \in { Absent, "*", "user1", " User2 , User1 ", "user2" },
          useStoredUser \in { Absent, "false" },
          useStoredAddress \in { "true", "false" },
          rejectTreatment \in { Absent, "r@e.io" } :
          environment =
              ConfigurationOf({ << "USERS", users >>,
                                << "USE_STORED_USER_CONFIGURATION", useStoredUser >>,
                                << "USE_STORED_ADDRESS_CONFIGURATION", useStoredAddress >>,
                                << "DESTINATION", "g@e.io" >>,
                                << "REJECT_TREATMENT", rejectTreatment >>,
                                TransportErrorsOnly })
    /\ InitHandler

\* Allowed subaddresses: the subaddress key of the user (absent, empty,
\* listing, mandatory, wildcard) over the stored and the configured value
InitSubaddresses ==
    /\ to \in { "user1@domain.com", "user1+subA@domain.com", "User1+SubB@domain.com",
                "user1+@domain.com" }
    /\ \E userSubaddressesText \in { Absent, "", "subB", "+ SubB", "*" },
          storedSubaddresses \in { Absent, "suba" } :
          store = ConfigurationOf({ << "user1+", userSubaddressesText >>,
                                    << "@SUBADDRESSES", storedSubaddresses >> })
    /\ \E subaddresses \in { Absent, "subA", "+subA, subB", "+*", "+", "" },
          useStoredUser \in { Absent, "false" } :
          environment =
              ConfigurationOf({ << "SUBADDRESSES", subaddresses >>,
                                << "USE_STORED_USER_CONFIGURATION", useStoredUser >>,
                                << "USE_STORED_ADDRESS_CONFIGURATION", "true" >>,
                                << "USERS", "user1" >>,
                                << "DESTINATION", "g@e.io" >>,
                                TransportErrorsOnly })
    /\ InitHandler

\* Global address configuration: each '@' key absent, empty or set, the
\* environment set or left to the defaults, stored address configuration
\* switched on, off or left to its default
InitGlobalConfiguration ==
    /\ to = "user1@domain.com"
    /\ \E destination \in { Absent, "", "s@e.io" },
          rejectTreatment \in { Absent, "", "stored reason" },
          subaddresses \in { Absent, "", "+subs" },
          users \in { Absent, "", "user1" } :
          store = ConfigurationOf({ << "@DESTINATION", destination >>,
                                    << "@REJECT_TREATMENT", rejectTreatment >>,
                                    << "@SUBADDRESSES", subaddresses >>,
                                    << "@USERS", users >> })
    /\ \E configured \in BOOLEAN, useStoredAddress \in { Absent, "true", "false" } :
          environment =
              ConfigurationOf({ << "DESTINATION", IF configured THEN "g@e.io" ELSE Absent >>,
                                << "REJECT_TREATMENT",
                                   IF configured THEN "env reason" ELSE Absent >>,
                                << "SUBADDRESSES", IF configured THEN "sube" ELSE Absent >>,
                                << "USERS", IF configured THEN "*" ELSE Absent >>,
                                << "USE_STORED_ADDRESS_CONFIGURATION", useStoredAddress >>,
                                TransportErrorsOnly })
    /\ InitHandler

\* Recipients in every letter case, with and without subaddress, under
\* several local-part separators; destinations and reject treatments in
\* shorthand and in full; custom header values
InitShorthand ==
    /\ to \in { "user1@domain.com", "User1+SubA@domain.com", "USER1+SUBA@domain.com",
                "user1+suba@domain.com", "user1+a+b@domain.com", "+sub@domain.com",
                "User1--Sub+x@domain.com", "userXsub@domain.com" }
    /\ store = EmptyStore
    /\ \E separator \in { Absent, "--", "x", "X" },
          destination \in { "@e.io", " +x@e.io : B@E.io", "--y@e.io", "A@E.io, @e.io" },
          rejectTreatment \in { Absent, "@r.io" },
          headerValues \in { << Absent, Absent >>, << " yes ", "no" >> } :
          environment =
              ConfigurationOf({ << "FORMAT_LOCAL_PART_SEPARATOR", separator >>,
                                << "DESTINATION", destination >>,
                                << "REJECT_TREATMENT", rejectTreatment >>,
                                << "CUSTOM_HEADER_PASS", headerValues[1] >>,
                                << "CUSTOM_HEADER_FAIL", headerValues[2] >>,
                                << "USERS", "*" >>,
                                TransportErrorsOnly })
    /\ InitHandler

\* Recipients that the other scenarios use, and one without user part
Recipients ==
    { "user1@domain.com", "User1@domain.com", "user1+subA@domain.com",
      "user2@domain.com", "user2+subB@domain.com", "user3@domain.com",
      "+sub@domain.com" }

\* The defaults: nothing is configured and nothing is stored
InitDefaults ==
    /\ to \in Recipients
    /\ store = EmptyStore
    /\ environment = ConfigurationOf({})
    /\ InitHandler

\* Custom header names that match and that do not match the pattern of valid
\* custom headers, the default pattern and an anchored one
InitCustomHeader ==
    /\ to \in { "user1@domain.com", "user2@domain.com" }
    /\ store = ConfigurationOf({ << "user1", "u@e.io" >>, << "@USERS", "user1" >> })
    /\ \E header \in { "My-Header", " X-Custom ", "Not-X-Anchored", "" },
          pattern \in { Absent, "^(X-)" },
          useStoredAddress \in { "true", "false" } :
          environment =
              ConfigurationOf({ << "CUSTOM_HEADER", header >>,
                                << "FORMAT_VALID_CUSTOM_HEADER_REGEXP", pattern >>,
                                << "USE_STORED_ADDRESS_CONFIGURATION", useStoredAddress >>,
                                << "DESTINATION", "g@e.io" >>,
                                TransportErrorsOnly })
    /\ InitHandler

InitConfiguration ==
    \/ InitCustomHeader
    \/ InitAllowedUsers
    \/ InitSubaddresses
    \/ InitGlobalConfiguration
    \/ InitShorthand
    \/ InitDefaults

SpecConfiguration == InitConfiguration /\ [][Next]_vars

(***************************************************************************)
(* Several invocations.  The runtime calls email once for each message,   *)
(* and calls it again when a sender resends after an exception.  An       *)
(* invocation runs until it awaits a store read or a forward; while it is *)
(* suspended another invocation may run.  Everything email assigns is a   *)
(* const or let of the call or of the functions it calls (worker.js      *)
(* 212-216, 285, 571); the module level holds only the constants FIXED    *)
(* and DEFAULTS.  The invocations share the environment and the store,    *)
(* which the handler only reads.                                         *)
(***************************************************************************)

\* The local state of the running invocation
InvocationState ==
    [ to |-> to, pc |-> pc, loaded |-> loaded, storeReads |-> storeReads,
      primaries |-> primaries, forwardCalls |-> forwardCalls,
      rejectCalls |-> rejectCalls, consoleOutputCalls |-> consoleOutputCalls,
      exception |-> exception ]

\* Mutant of Resume: the reasons passed to setReject are kept at module level
Resume_KeepingRejectCalls(invocation) ==
    /\ to' = invocation.to
    /\ pc' = invocation.pc
    /\ loaded' = invocation.loaded
    /\ storeReads' = invocation.storeReads
    /\ primaries' = invocation.primaries
    /\ forwardCalls' = invocation.forwardCalls
    /\ rejectCalls' = rejectCalls \o invocation.rejectCalls
    /\ consoleOutputCalls' = invocation.consoleOutputCalls
    /\ exception' = invocation.exception

\* The given invocation runs next, with the locals of its own call
Resume(invocation) ==
    /\ to' = invocation.to
    /\ pc' = invocation.pc
    /\ loaded' = invocation.loaded
    /\ storeReads' = invocation.storeReads
    /\ primaries' = invocation.primaries
    /\ forwardCalls' = invocation.forwardCalls
    /\ rejectCalls' = invocation.rejectCalls
    /\ consoleOutputCalls' = invocation.consoleOutputCalls
    /\ exception' = invocation.exception

EndedPositions == { "Accepted", "RejectForwarded", "DirectRejected", "Raised" }

\* The running invocation is suspended at an await, has not begun or has
\* ended, and the other invocation, which has not ended, runs on
Switch ==
    /\ other.pc \notin EndedPositions \cup { "None" }
    /\ Resume(other)
    /\ other' = InvocationState
    /\ UNCHANGED << environment, store >>

\* The sender resends the message after the exception: email is called
\* again with the same message.  The raised invocation is kept in other;
\* one resend is followed
Retry ==
    /\ pc = "Raised"
    /\ other.pc \in (EndedPositions \ { "Raised" }) \cup { "None" }
    /\ Resume(FreshInvocation(to))
    /\ other' = InvocationState
    /\ UNCHANGED << environment, store >>

\* Two messages, to an allowed user and to one who is not (or twice to the
\* same), or a single message; two primary destinations in shorthand, a
\* reject reason or a reject-forward destination in shorthand
InitInvocations ==
    /\ to \in { "user1@domain.com", "User2+x@domain.com" }
    /\ \E recipient \in { "user1@domain.com", "User2+x@domain.com", "" } :
          other = IF recipient = "" THEN NoInvocation ELSE FreshInvocation(recipient)
    /\ \E user \in { Absent, "@g.io" } : store = ConfigurationOf({ << "user2", user >> })
    /\ \E rejectTreatment \in { ": unknown", "@r.io" } :
          environment =
              ConfigurationOf({ << "USERS", "user1" >>,
                                << "DESTINATION", "@e.io, @f.io" >>,
                                << "REJECT_TREATMENT", rejectTreatment >>,
                                TransportErrorsOnly })
    /\ InitInvocation

NextInvocations ==
    \/ LoadGlobalConfiguration
    \/ LoadUserConfiguration
    \/ CheckAllowed
    \/ \E p \in 1..MaxPrimaries : ForwardResolves(p)
    \/ \E p \in 1..MaxPrimaries, errorMessage \in ForwardErrorMessages :
          ForwardRejects(p, errorMessage)
    \/ CompoundForwardSettles
    \/ Switch
    \/ Retry

SpecInvocations == InitInvocations /\ [][NextInvocations]_vars

\* Destination validation: specifications with invalid and repeated
\* candidates, in full and in shorthand, with primaries that keep no backup
ValidationTexts ==
    { text \in
        { "a@e.io, a@e.io : nodomain, b@e.io:c@e.io", " , a@e.io:",
          "nodomain:@e.io, +x@e.io : user1@e.io", "b@e.io:a@e.io, a@e.io:b@e.io",
          "nodomain, a@@e.io" } : WithinBounds(text) }

InitValidation ==
    /\ to \in { "user1@domain.com", "User1+Sub@domain.com" }
    /\ store = EmptyStore
    /\ \E destination \in ValidationTexts,
          rejectTreatment \in { ": gone", "r@e.io:a@e.io:r@e.io, nodomain" } :
          environment =
              ConfigurationOf({ << "USERS", "user1" >>,
                                << "DESTINATION", destination >>,
                                << "REJECT_TREATMENT", rejectTreatment >>,
                                TransportErrorsOnly })
    /\ InitHandler

SpecValidation == InitValidation /\ [][Next]_vars

\* Some awaited forward settles
ForwardSettles ==
    \/ \E p \in 1..MaxPrimaries : ForwardResolves(p)
    \/ \E p \in 1..MaxPrimaries, errorMessage \in ForwardErrorMessages :
          ForwardRejects(p, errorMessage)

\* Every awaited store read and every awaited forward eventually completes,
\* and the handler runs on whenever what it awaits has completed: weak
\* fairness of each step.  For the steps that validate destinations the
\* enabling condition is written out: it is the guard of the action, and
\* each of these actions changes pc, loaded or consoleOutputCalls.
Fairness ==
    /\ WF_vars(LoadGlobalConfiguration)
    /\ WF_vars(ForwardSettles)
    /\ []<>(pc # "LoadUser") \/ []<><<LoadUserConfiguration>>_vars
    /\ []<>(pc # "CheckAllowed") \/ []<><<CheckAllowed>>_vars
    /\ \/ []<>(~(Forwarding /\ AllPrimariesReturned(primaries)))
       \/ []<><<CompoundForwardSettles>>_vars

\* Termination is checked over the destination validation scenarios and the
\* custom header scenarios
InitTermination == InitValidation \/ InitCustomHeader

SpecTermination == InitTermination /\ [][Next]_vars /\ Fairness

(***************************************************************************)
(* Forwards whose outcome is a fixed function of the address.  The        *)
(* primaries of a compound destination run concurrently (Promise.all over *)
(* forwardToPrimaryDestination, worker.js 266-272): which awaited forward *)
(* settles next is open, what it settles to is not.                       *)
(***************************************************************************)

\* The outcome of message.forward by the domain of the address: "" when the
\* forward resolves, else the message it rejects with
FixedOutcome(destination) ==
    IF Includes(destination, "@soft.io")
    THEN CLOUDFLARE_FORWARDING_TRANSPORT_ERROR_MESSAGE_PREFIX
    ELSE IF Includes(destination, "@hard.io")
    THEN CLOUDFLARE_FORWARDING_UNVERIFIED_ADDRESS_MESSAGE_PREFIX
    ELSE ""

\* The forward awaited by primary destination p settles as its address fixes
ForwardSettlesAsFixed(p) ==
    /\ Forwarding
    /\ p \in 1..Len(primaries)
    /\ ~primaries[p].returned
    /\ LET outcome == FixedOutcome(forwardCalls[primaries[p].call].destination)
       IN  IF outcome = "" THEN ForwardResolves(p) ELSE ForwardRejects(p, outcome)

\* One message handled twice, the two invocations free to differ in the order
\* in which the forwards of their primaries settle
InitInterleavings ==
    /\ to = "user1@domain.com"
    /\ other = FreshInvocation(to)
    /\ store = EmptyStore
    /\ \E destination \in { "a@hard.io:b@ok.io, c@hard.io:d@soft.io:e@ok.io",
                            "a@hard.io:b@soft.io, c@hard.io:d@ok.io", "a@ok.io, b@hard.io, c@ok.io",
                            "a@hard.io:b@hard.io, c@hard.io",
                            "a@soft.io:b@ok.io, c@hard.io" },
          rejectTreatment \in { ": gone", "r@ok.io, s@hard.io", "r@hard.io, s@soft.io" } :
          environment =
              ConfigurationOf({ << "USERS", "user1" >>,
                                << "DESTINATION", destination >>,
                                << "REJECT_TREATMENT", rejectTreatment >>,
                                TransportErrorsOnly })
    /\ InitInvocation

NextInterleavings ==
    \/ LoadGlobalConfiguration
    \/ LoadUserConfiguration
    \/ CheckAllowed
    \/ \E p \in 1..MaxPrimaries : ForwardSettlesAsFixed(p)
    \/ CompoundForwardSettles
    \/ Switch

SpecInterleavings == InitInterleavings /\ [][NextInterleavings]_vars

(***************************************************************************)
(* Vocabulary of the properties: what an observer of message.forward,      *)
(* message.setReject and the handler's completion sees                     *)
(***************************************************************************)

Completed == pc \in { "Accepted", "RejectForwarded", "DirectRejected" }
Terminated == Completed \/ pc = "Raised"

\* The configuration is loaded and the handler has run past the allow check
PastAllowCheck == Len(loaded) = Len(GlobalKeys) + 2 /\ pc # "CheckAllowed"

Stages == { "AcceptForwarding", "RejectForwarding" }

\* The compound destination a stage forwards to
StageDestination(actionType) ==
    IF actionType = "AcceptForwarding" THEN acceptCompoundDestination.validPrimary
    ELSE rejectCompoundDestination.validPrimary

\* The forward calls of one primary destination of a stage, in call order
CallsOf(actionType, p) ==
    SelectSeq(forwardCalls,
              LAMBDA call : call.actionType = actionType
                            /\ call.primaryDestinationId = p)

\* Primary destinations that issued a forward call in a stage
PrimariesOf(actionType) ==
    { forwardCalls[i].primaryDestinationId :
        i \in { j \in 1..Len(forwardCalls) : forwardCalls[j].actionType = actionType } }

SomeForwardSucceeded(actionType) ==
    \E i \in 1..Len(forwardCalls) :
        forwardCalls[i].actionType = actionType /\ forwardCalls[i].status = "resolved"

PassForwardSucceeded ==
    \E i \in 1..Len(forwardCalls) :
        forwardCalls[i].headerValue = customHeaderPass
        /\ forwardCalls[i].status = "resolved"

FailForwardSucceeded ==
    \E i \in 1..Len(forwardCalls) :
        forwardCalls[i].headerValue = customHeaderFail
        /\ forwardCalls[i].status = "resolved"

PrimarySucceeded(actionType, p) ==
    \E i \in 1..Len(CallsOf(actionType, p)) :
        CallsOf(actionType, p)[i].status = "resolved"

\* Every backup of the primary destination was attempted and failed
PrimaryExhausted(actionType, p) ==
    /\ p \in 1..Len(StageDestination(actionType))
    /\ Len(CallsOf(actionType, p)) = Len(StageDestination(actionType)[p])
    /\ \A i \in 1..Len(CallsOf(actionType, p)) :
          CallsOf(actionType, p)[i].status = "rejected"

\* Some failure of the primary destination matched the recoverable pattern
PrimaryFailedRecoverably(actionType, p) ==
    \E i \in 1..Len(CallsOf(actionType, p)) :
        /\ CallsOf(actionType, p)[i].status = "rejected"
        /\ RegExpTest(Configured("CLOUDFLARE_RECOVERABLE_FORWARDING_ERROR_REGEXP"),
                      CallsOf(actionType, p)[i].errorMessage)

\* The compound forward of the stage has completed (its outcome is logged)
StageSettled(actionType) ==
    \E i \in 1..Len(consoleOutputCalls) :
        /\ consoleOutputCalls[i].level = "info"
        /\ consoleOutputCalls[i].action = actionType

RaisedForwardingError ==
    /\ pc = "Raised"
    /\ StartsWith(exception, RECOVERABLE_FORWARD_EXCEPTION_MESSAGE_PREFIX)

(***************************************************************************)
(* Properties                                                              *)
(***************************************************************************)

\* The three outcomes of a completed invocation
C1_OutcomeA == PassForwardSucceeded /\ rejectCalls = << >>
C1_OutcomeB == FailForwardSucceeded /\ ~PassForwardSucceeded /\ rejectCalls = << >>
C1_OutcomeC ==
    /\ Len(rejectCalls) = 1
    /\ \A i \in 1..Len(forwardCalls) : forwardCalls[i].status # "resolved"

\* C1: every invocation that completes without raising has exactly one of
\* three outcomes: (a) a pass-header forward succeeded and reject was not
\* invoked; (b) a fail-header forward succeeded, no pass-header forward
\* succeeded and reject was not invoked; (c) reject was invoked exactly once
\* and no forward succeeded.
C1_ExactlyOneOutcome ==
    Completed =>
        Cardinality({ k \in 1..3 :
                        \/ k = 1 /\ C1_OutcomeA
                        \/ k = 2 /\ C1_OutcomeB
                        \/ k = 3 /\ C1_OutcomeC }) = 1
\* Reached: a direct reject after an accept forward and a reject forward that
\* both failed
C1_Witness ==
    /\ pc = "DirectRejected"
    /\ PrimariesOf("AcceptForwarding") # {}
    /\ PrimariesOf("RejectForwarding") # {}

\* C2 (recoverable dominance): when a primary destination of a compound
\* forward exhausted its backups and one of its failures matched the
\* recoverable pattern, the handler raises an exception whose message starts
\* with 'forwarding error' and never invokes reject, even when another
\* primary of the same compound destination succeeded.
C2_RecoverableDominance ==
    \A actionType \in Stages :
        \A p \in PrimariesOf(actionType) :
            (PrimaryExhausted(actionType, p) /\ PrimaryFailedRecoverably(actionType, p))
            => /\ rejectCalls = << >>
               /\ pc = actionType \/ RaisedForwardingError
               /\ StageSettled(actionType) => RaisedForwardingError
\* Reached: raised although another primary of the same compound destination
\* had its forward resolved
C2_Witness ==
    /\ pc = "Raised"
    /\ \E p, q \in PrimariesOf("AcceptForwarding") :
          /\ PrimaryExhausted("AcceptForwarding", p)
          /\ PrimaryFailedRecoverably("AcceptForwarding", p)
          /\ PrimarySucceeded("AcceptForwarding", q)

\* C3 (masked recoverable error): when the accept forward has completed,
\* some primary destination recorded a recoverable failure, and every primary
\* that recorded one went on to succeed on a later backup, the message is
\* accepted: no exception, no reject, no reject forward, even when another
\* primary exhausted its backups with only unrecoverable failures.
C3_MaskedRecoverableError ==
    ( /\ StageSettled("AcceptForwarding")
      /\ \E p \in PrimariesOf("AcceptForwarding") :
            PrimaryFailedRecoverably("AcceptForwarding", p)
      /\ \A p \in PrimariesOf("AcceptForwarding") :
            PrimaryFailedRecoverably("AcceptForwarding", p)
            => PrimarySucceeded("AcceptForwarding", p) )
    => /\ pc = "Accepted"
       /\ exception = ""
       /\ rejectCalls = << >>
       /\ PrimariesOf("RejectForwarding") = {}
\* Reached: accepted with one primary masking a recoverable failure and
\* another exhausted by unrecoverable failures only
C3_Witness ==
    /\ pc = "Accepted"
    /\ \E p, q \in PrimariesOf("AcceptForwarding") :
          /\ PrimaryFailedRecoverably("AcceptForwarding", p)
          /\ PrimarySucceeded("AcceptForwarding", p)
          /\ PrimaryExhausted("AcceptForwarding", q)
          /\ ~PrimaryFailedRecoverably("AcceptForwarding", q)

\* C4 (partial unrecoverable failure is absorbed): when the accept forward
\* has completed with at least one primary destination successful and every
\* unsuccessful primary failed with unrecoverable errors only, the compound
\* forward is successful: the handler does not raise, does not reject-forward
\* and does not invoke reject.
C4_PartialUnrecoverableAbsorbed ==
    ( /\ StageSettled("AcceptForwarding")
      /\ \E p \in PrimariesOf("AcceptForwarding") :
            PrimarySucceeded("AcceptForwarding", p)
      /\ \A p \in PrimariesOf("AcceptForwarding") :
            ~PrimarySucceeded("AcceptForwarding", p)
            => ~PrimaryFailedRecoverably("AcceptForwarding", p) )
    => /\ pc = "Accepted"
       /\ exception = ""
       /\ rejectCalls = << >>
       /\ PrimariesOf("RejectForwarding") = {}
       /\ consoleOutputCalls[Len(consoleOutputCalls)].status = "SuccessfulForwarding"
\* Reached: accepted with one primary successful and another exhausted
C4_Witness ==
    /\ pc = "Accepted"
    /\ \E p, q \in PrimariesOf("AcceptForwarding") :
          /\ PrimarySucceeded("AcceptForwarding", p)
          /\ PrimaryExhausted("AcceptForwarding", q)

\* C5 (sequential failover): within one primary destination the backups are
\* attempted in their configured order, backup i+1 is attempted only after
\* the attempt on backup i has failed, and after the first successful forward
\* no further backup of that primary is attempted.
C5_SequentialFailover ==
    \A actionType \in Stages :
        \A p \in PrimariesOf(actionType) :
            LET calls == CallsOf(actionType, p)
            IN  /\ p \in 1..Len(StageDestination(actionType))
                /\ Len(calls) <= Len(StageDestination(actionType)[p])
                /\ \A i \in 1..Len(calls) :
                      /\ calls[i].backupDestinationId = i
                      /\ calls[i].destination = StageDestination(actionType)[p][i]
                      /\ i < Len(calls) => calls[i].status = "rejected"
\* Reached: of three backups the first failed, the second succeeded, and the
\* third was never attempted
C5_Witness ==
    \E p \in PrimariesOf("AcceptForwarding") :
        /\ Len(StageDestination("AcceptForwarding")[p]) = 3
        /\ Len(CallsOf("AcceptForwarding", p)) = 2
        /\ CallsOf("AcceptForwarding", p)[1].status = "rejected"
        /\ CallsOf("AcceptForwarding", p)[2].status = "resolved"
        /\ Terminated

\* The allow check of the handler; a stage is running or has completed; the
\* latest forward of a primary destination is awaited
IsAllowed == messageUserIsAllowed /\ messageSubaddressIsAllowed
StageStarted(actionType) == pc = actionType \/ StageSettled(actionType)
ForwardInFlight(actionType, p) ==
    /\ pc = actionType
    /\ CallsOf(actionType, p)[Len(CallsOf(actionType, p))].status = "pending"

\* C6 (independent completion of primaries): in a compound forward every
\* primary destination is started and runs its own failover chain to success
\* or exhaustion whatever the outcome of the other primaries: while the
\* compound forward runs, a primary that is neither successful nor exhausted
\* has its forward in flight, and the compound forward completes only when
\* every primary is successful or exhausted.
C6_IndependentCompletion ==
    \A actionType \in Stages :
        StageStarted(actionType) =>
            \A p \in 1..Len(StageDestination(actionType)) :
                /\ p \in PrimariesOf(actionType)
                /\ \/ PrimarySucceeded(actionType, p)
                   \/ PrimaryExhausted(actionType, p)
                   \/ ForwardInFlight(actionType, p)
\* Reached: one primary exhausted with a recoverable failure, another went
\* through two backups to its own end
C6_Witness ==
    /\ pc = "Raised"
    /\ \E p, q \in PrimariesOf("AcceptForwarding") :
          /\ PrimaryExhausted("AcceptForwarding", p)
          /\ PrimaryFailedRecoverably("AcceptForwarding", p)
          /\ p # q
          /\ Len(CallsOf("AcceptForwarding", q)) = 2
          /\ PrimarySucceeded("AcceptForwarding", q)

\* C7: when the recipient's user or subaddress is not allowed, accept
\* forwarding is never attempted: no forward carrying the pass header is
\* issued, and processing goes directly to the reject treatment.
C7_NotAllowedNeverAccepts ==
    (Len(loaded) = Len(GlobalKeys) + 2 /\ ~IsAllowed)
    => /\ \A i \in 1..Len(forwardCalls) :
             /\ forwardCalls[i].headerValue # customHeaderPass
             /\ forwardCalls[i].actionType = "RejectForwarding"
       /\ ~StageStarted("AcceptForwarding")
       /\ pc \in { "CheckAllowed", "RejectForwarding", "RejectForwarded",
                   "DirectRejected", "Raised" }
\* Reached: a recipient that is not allowed was reject-forwarded
C7_Witness == PastAllowCheck /\ ~IsAllowed /\ pc = "RejectForwarded"

\* The accept forward completed without success and without a recoverable
\* failure
AcceptFailedUnrecoverably ==
    /\ StageSettled("AcceptForwarding")
    /\ ~SomeForwardSucceeded("AcceptForwarding")
    /\ \A p \in PrimariesOf("AcceptForwarding") :
          ~PrimaryFailedRecoverably("AcceptForwarding", p)

\* C8: when the recipient is allowed and the accept forward completes without
\* success and without a recoverable failure, the handler does not raise and
\* proceeds to the reject treatment: it reject-forwards to every primary of
\* the reject treatment when that holds a valid address, otherwise it invokes
\* reject exactly once with the resolved reject reason.
C8_UnrecoverableAcceptGoesToReject ==
    (PastAllowCheck /\ IsAllowed /\ AcceptFailedUnrecoverably)
    => IF Len(rejectCompoundDestination.validPrimary) > 0
       THEN /\ PrimariesOf("RejectForwarding")
                 = 1..Len(rejectCompoundDestination.validPrimary)
            /\ pc \in { "RejectForwarding", "RejectForwarded", "DirectRejected",
                        "Raised" }
            /\ pc = "Raised" =>
                  \E p \in PrimariesOf("RejectForwarding") :
                      /\ PrimaryExhausted("RejectForwarding", p)
                      /\ PrimaryFailedRecoverably("RejectForwarding", p)
            /\ rejectCalls # << >> => pc = "DirectRejected" /\ Len(rejectCalls) = 1
       ELSE /\ pc = "DirectRejected"
            /\ exception = ""
            /\ rejectCalls = << fullRejectReason >>
            /\ PrimariesOf("RejectForwarding") = {}
\* Reached: two backups failed unrecoverably, then one direct reject
C8_Witness ==
    /\ PastAllowCheck /\ IsAllowed /\ AcceptFailedUnrecoverably
    /\ Len(CallsOf("AcceptForwarding", 1)) = 2
    /\ Len(rejectCompoundDestination.validPrimary) = 0
    /\ pc = "DirectRejected"

\* The handler reached the reject treatment; the reject forward has a
\* recoverable failure in an exhausted primary
RejectStageEntered == PastAllowCheck /\ (~IsAllowed \/ AcceptFailedUnrecoverably)
RejectFailedRecoverably ==
    \E p \in PrimariesOf("RejectForwarding") :
        /\ PrimaryExhausted("RejectForwarding", p)
        /\ PrimaryFailedRecoverably("RejectForwarding", p)

\* C9: in the reject-forward stage, when the reject treatment has no valid
\* primary destination, or its compound forward completes without success and
\* without raising, reject is invoked exactly once; when the reject forward
\* succeeds reject is never invoked; when an unsuccessful primary had a
\* recoverable failure the handler raises and reject is never invoked.
C9_RejectForwardStage ==
    /\ Len(rejectCalls) <= 1
    /\ rejectCalls # << >> =>
          /\ pc = "DirectRejected"
          /\ RejectStageEntered
          /\ \/ Len(rejectCompoundDestination.validPrimary) = 0
             \/ /\ StageSettled("RejectForwarding")
                /\ ~SomeForwardSucceeded("RejectForwarding")
    /\ (RejectStageEntered /\ Len(rejectCompoundDestination.validPrimary) = 0)
          => /\ pc = "DirectRejected" /\ Len(rejectCalls) = 1
             /\ PrimariesOf("RejectForwarding") = {}
    /\ (StageSettled("RejectForwarding") /\ ~RejectFailedRecoverably)
          => IF SomeForwardSucceeded("RejectForwarding")
             THEN pc = "RejectForwarded" /\ rejectCalls = << >>
             ELSE pc = "DirectRejected" /\ Len(rejectCalls) = 1
    /\ RejectFailedRecoverably
          => /\ rejectCalls = << >>
             /\ pc = "RejectForwarding" \/ RaisedForwardingError
             /\ StageSettled("RejectForwarding") => RaisedForwardingError
\* Reached: the reject forward failed unrecoverably, then one direct reject
C9_Witness ==
    /\ pc = "DirectRejected"
    /\ StageSettled("RejectForwarding")
    /\ ~IsAllowed
    /\ Len(rejectCalls) = 1

\* The candidates of the reject reason, in order, and the local-part prepend
RejectReasonCandidates ==
    << userRejectTreatment, globalRejectTreatment, Trim(REJECT_TREATMENT),
       Trim(DEFAULTS.REJECT_TREATMENT) >>
RECURSIVE FirstWithoutAt(_)
FirstWithoutAt(candidates) ==
    IF Len(candidates) = 1 \/ ~Includes(Head(candidates), "@") THEN Head(candidates)
    ELSE FirstWithoutAt(Tail(candidates))
WithLocalPart(reason) ==
    IF StartsWithNonAlphanumeric(reason) THEN messageLocalPart \o reason ELSE reason

\* C10 as stated: the direct-reject reason is the first candidate, in the
\* order resolved per-user reject treatment, resolved global reject
\* treatment, environment reject treatment, hard default, that does not
\* contain '@'.  (The reason passed to reject is that candidate after the
\* local-part prepend of the direct reject.)
C10_FirstCandidateWithoutAt ==
    pc = "DirectRejected"
    => rejectCalls = << WithLocalPart(FirstWithoutAt(RejectReasonCandidates)) >>

RECURSIVE FirstUsable(_)
FirstUsable(candidates) ==
    IF \/ Len(candidates) = 1
       \/ Head(candidates) # "" /\ ~Includes(Head(candidates), "@")
    THEN Head(candidates)
    ELSE FirstUsable(Tail(candidates))

\* C10 as amended: the direct-reject reason is the first candidate, in that
\* order, that is not empty and does not contain '@' (an empty candidate is
\* skipped like a forwarding address); a reject treatment that is a
\* forwarding address is never used as the reject reason.
C10_FirstUsableCandidate ==
    pc = "DirectRejected"
    => /\ rejectCalls = << WithLocalPart(FirstUsable(RejectReasonCandidates)) >>
       /\ ~Includes(rejectCalls[1], "@")
\* Reached: the reject treatment is a forwarding address whose reject forward
\* failed unrecoverably, and the reason fell back to a later candidate
C10_Witness ==
    /\ pc = "DirectRejected"
    /\ StageSettled("RejectForwarding")
    /\ Includes(userRejectTreatment, "@")
    /\ rejectCalls[1] # userRejectTreatment

\* The recipient address up to its first '@', as received
RecipientLocalPart == SubSeq(to, 1, IndexOf(to, "@") - 1)

\* The reason begins with a letter or a digit
BeginsAlphanumeric(reason) ==
    /\ reason # ""
    /\ \/ Includes(LowerCaseLetters, CharAt(reason, 1))
       \/ Includes(UpperCaseLetters, CharAt(reason, 1))
       \/ Includes(Digits, CharAt(reason, 1))

\* C11: when the handler direct-rejects, a resolved reject reason that begins
\* with a non-alphanumeric character is passed to setReject preceded by the
\* recipient local part as received (not lower-cased, subaddress included);
\* a reason that begins with a letter or a digit is passed unchanged
C11_RejectReasonPrepend ==
    pc = "DirectRejected" =>
        rejectCalls =
            << IF BeginsAlphanumeric(userRejectReason) THEN userRejectReason
               ELSE RecipientLocalPart \o userRejectReason >>

\* Reached: a direct reject of a recipient with upper-case letters and a
\* subaddress, with a reason that begins with a non-alphanumeric character
C11_Witness ==
    /\ pc = "DirectRejected"
    /\ ~BeginsAlphanumeric(userRejectReason)
    /\ RecipientLocalPart # ToLowerCase(RecipientLocalPart)
    /\ messageSubaddress # ""
    /\ rejectCalls = << RecipientLocalPart \o userRejectReason >>

\* A backup candidate as configured, trimmed, with the message user in front
\* of a candidate that begins with the local-part separator or with '@'
ResolvedCandidate(candidate) ==
    LET trimmed == Trim(candidate)
    IN  IF \/ StartsWith(trimmed, FORMAT_LOCAL_PART_SEPARATOR)
           \/ StartsWith(trimmed, "@")
        THEN messageUser \o trimmed
        ELSE trimmed

\* The valid addresses of a compound destination specification in the order
\* of the specification, each with the number of the primary it occurs in
RECURSIVE OccurrencesFrom(_, _)
OccurrencesFrom(primaryDestinationTexts, primary) ==
    IF primaryDestinationTexts = << >> THEN << >>
    ELSE LET candidates ==
                 Split(Head(primaryDestinationTexts), FORMAT_BACKUP_ADDRESS_SEPARATOR)
             occurrences ==
                 [ j \in 1..Len(candidates) |->
                     [ primary |-> primary,
                       address |-> ResolvedCandidate(candidates[j]) ] ]
         IN  SelectSeq(occurrences,
                       LAMBDA o : isValidEmailAddress(
                                      o.address,
                                      Configured("FORMAT_VALID_EMAIL_ADDRESS_REGEXP")))
             \o OccurrencesFrom(Tail(primaryDestinationTexts), primary + 1)

ValidOccurrences(compoundDestinationText) ==
    OccurrencesFrom(Split(compoundDestinationText, FORMAT_PRIMARY_ADDRESS_SEPARATOR), 1)

IsFirstOccurrence(occurrences, k) ==
    \A m \in 1..(k - 1) : occurrences[m].address # occurrences[k].address

\* The occurrences among the first k that are first (or, with first = FALSE,
\* later) occurrences of their address, in order
RECURSIVE OccurrencesUpTo(_, _, _)
OccurrencesUpTo(occurrences, k, first) ==
    IF k = 0 THEN << >>
    ELSE OccurrencesUpTo(occurrences, k - 1, first)
         \o (IF IsFirstOccurrence(occurrences, k) = first
             THEN << occurrences[k] >> ELSE << >>)

AddressesOf(occurrences) ==
    [ k \in 1..Len(occurrences) |-> occurrences[k].address ]

\* The first occurrences grouped by the primary they occur in, from primary
\* number `primary` on, without the primaries that keep no address
RECURSIVE GroupedFrom(_, _, _)
GroupedFrom(firstOccurrences, primary, numPrimaries) ==
    IF primary > numPrimaries THEN << >>
    ELSE LET group ==
                 AddressesOf(SelectSeq(firstOccurrences,
                                       LAMBDA o : o.primary = primary))
         IN  (IF group = << >> THEN << >> ELSE << group >>)
             \o GroupedFrom(firstOccurrences, primary + 1, numPrimaries)

\* The validated compound destination keeps exactly the first occurrences,
\* where they occur, and records the later occurrences as duplicates
DedupedAsFirstOccurrences(compoundDestinationText) ==
    LET occurrences == ValidOccurrences(compoundDestinationText)
        validated == validateCompoundDestination(compoundDestinationText)
    IN  /\ validated.validPrimary =
              GroupedFrom(OccurrencesUpTo(occurrences, Len(occurrences), TRUE), 1,
                          Len(Split(compoundDestinationText,
                                    FORMAT_PRIMARY_ADDRESS_SEPARATOR)))
        /\ validated.duplicateBackup =
              AddressesOf(OccurrencesUpTo(occurrences, Len(occurrences), FALSE))
        /\ \A k \in 1..Len(occurrences) :
              Cardinality({ pb \in { << p, b >> \in (1..Len(validated.validPrimary))
                                                     \X (1..Len(occurrences)) :
                                       b <= Len(validated.validPrimary[p]) } :
                              validated.validPrimary[pb[1]][pb[2]]
                                  = occurrences[k].address }) = 1

\* C12: an address that occurs more than once among the valid addresses of a
\* compound destination specification, within one primary or across
\* primaries, is kept exactly once, where it first occurs; every later
\* occurrence is recorded in duplicateBackup, and no two forward calls of one
\* compound forward have the same destination
C12_DedupKeepsFirstOccurrence ==
    PastAllowCheck =>
        /\ DedupedAsFirstOccurrences(userDestination)
        /\ DedupedAsFirstOccurrences(userRejectTreatment)
        /\ \A i, j \in 1..Len(forwardCalls) :
              /\ i # j
              /\ forwardCalls[i].actionType = forwardCalls[j].actionType
              => forwardCalls[i].destination # forwardCalls[j].destination

\* Reached: a destination with a duplicate within a primary and a duplicate
\* across primaries, every kept address attempted once in the accept forward
C12_Witness ==
    /\ StageSettled("AcceptForwarding")
    /\ acceptCompoundDestination.validPrimary =
          << << "a@e.io", "b@e.io" >>, << "c@e.io" >> >>
    /\ acceptCompoundDestination.duplicateBackup = << "a@e.io", "b@e.io" >>
    /\ Len(SelectSeq(forwardCalls,
                     LAMBDA call : call.actionType = "AcceptForwarding")) = 3

\* The three ways a user is allowed: the user key is in the store and the
\* stored user configuration is read; the allowed users are the wildcard;
\* the user is listed among the allowed users
UserKeyIsRead ==
    /\ booleanFromString(Configured("USE_STORED_USER_CONFIGURATION"))
    /\ messageUser \in DOMAIN store
UsersIsWildcard == globalUsers = "*"
UserIsListed ==
    \E i \in 1..Len(Split(globalUsers, ",")) :
        Trim(Split(globalUsers, ",")[i]) = messageUser

\* C13: the user of the recipient is allowed exactly when the user key is in
\* the store (whatever its value, the empty string included) and stored user
\* configuration is enabled, or the resolved allowed users are '*', or the
\* lower-cased user is in the comma-separated resolved allowed users; the
\* accept forward is attempted exactly for an allowed user with an allowed
\* subaddress
C13_UserAllowed ==
    PastAllowCheck =>
        /\ messageUserIsAllowed <=> (UserKeyIsRead \/ UsersIsWildcard \/ UserIsListed)
        /\ StageStarted("AcceptForwarding") <=>
              /\ UserKeyIsRead \/ UsersIsWildcard \/ UserIsListed
              /\ messageSubaddressIsAllowed

\* Reached: a recipient in upper case allowed only by a user key that holds
\* the empty string, its accept forward attempted
C13_Witness ==
    /\ StageSettled("AcceptForwarding")
    /\ to = "User1@domain.com"
    /\ UserKeyIsRead /\ store["user1"] = ""
    /\ ~UsersIsWildcard /\ ~UserIsListed

\* The resolved subaddress configuration without its leading separator
ConcreteSubaddressList ==
    Trim(IF StartsWith(userSubaddresses, FORMAT_LOCAL_PART_SEPARATOR)
         THEN SubSeq(userSubaddresses, Len(FORMAT_LOCAL_PART_SEPARATOR) + 1,
                     Len(userSubaddresses))
         ELSE userSubaddresses)

\* The subaddress check as stated: without subaddress, unless a subaddress is
\* mandatory; with subaddress, when the concrete list is '*' or lists it
SubaddressAllowedAsStated ==
    IF messageSubaddress = ""
    THEN ~StartsWith(userSubaddresses, FORMAT_LOCAL_PART_SEPARATOR)
    ELSE \/ ConcreteSubaddressList = "*"
         \/ \E i \in 1..Len(Split(ConcreteSubaddressList, ",")) :
               Trim(Split(ConcreteSubaddressList, ",")[i]) = messageSubaddress

\* C14: a recipient without subaddress is allowed unless the resolved
\* subaddress configuration begins with the subaddress separator, whatever
\* follows the separator; a recipient with a subaddress is allowed exactly
\* when the configuration without its leading separator is '*' or lists the
\* lower-cased subaddress; the accept forward is attempted exactly for an
\* allowed user with a subaddress allowed in this sense
C14_SubaddressAllowed ==
    PastAllowCheck =>
        /\ messageSubaddressIsAllowed <=> SubaddressAllowedAsStated
        /\ StageStarted("AcceptForwarding") <=>
              (messageUserIsAllowed /\ SubaddressAllowedAsStated)

\* Reached: a recipient without subaddress rejected under a mandatory
\* wildcard, and a recipient with a subaddress in upper case that a mandatory
\* list includes, its accept forward attempted
C14_Witness ==
    /\ pc = "DirectRejected"
    /\ messageUserIsAllowed
    /\ messageSubaddress = ""
    /\ userSubaddresses = "+*"

C14_WitnessListed ==
    /\ StageSettled("AcceptForwarding")
    /\ to = "User1+SubB@domain.com"
    /\ userSubaddresses = "+suba, subb"

\* The layer a global field comes from: the store under its '@' key when
\* stored address configuration is enabled and the key is stored, else the
\* environment, else the default
GlobalFieldSource(key, name) ==
    IF booleanFromString(Configured("USE_STORED_ADDRESS_CONFIGURATION"))
       /\ key \in DOMAIN store
    THEN store[key]
    ELSE IF name \in DOMAIN environment THEN environment[name]
    ELSE DEFAULTS[name]

GlobalConfigurationLoaded == Len(loaded) >= Len(GlobalKeys)

\* C15: each global field (destination, reject treatment, allowed
\* subaddresses, allowed users) is the value stored under its '@' key when
\* stored address configuration is enabled and the key is stored, the empty
\* string included; otherwise the value of the environment; otherwise the
\* default (trimmed, the allowed subaddresses and users lower-cased)
C15_GlobalFieldLayers ==
    GlobalConfigurationLoaded =>
        /\ globalDestination = Trim(GlobalFieldSource("@DESTINATION", "DESTINATION"))
        /\ globalRejectTreatment =
              Trim(GlobalFieldSource("@REJECT_TREATMENT", "REJECT_TREATMENT"))
        /\ globalSubaddresses =
              ToLowerCase(Trim(GlobalFieldSource("@SUBADDRESSES", "SUBADDRESSES")))
        /\ globalUsers = ToLowerCase(Trim(GlobalFieldSource("@USERS", "USERS")))

\* Reached: a stored empty destination that overrides the configured one
\* next to a stored allowed-users value that overrides the configured
\* wildcard, the handler run to its end
C15_Witness ==
    /\ Terminated
    /\ useStoredAddressConfiguration
    /\ "@DESTINATION" \in DOMAIN store /\ store["@DESTINATION"] = ""
    /\ "DESTINATION" \in DOMAIN environment /\ environment["DESTINATION"] = "g@e.io"
    /\ globalDestination = ""
    /\ "@USERS" \in DOMAIN store /\ globalUsers = "user1"
    /\ environment["USERS"] = "*"

\* A segment of the value stored under the user key, trimmed; the empty
\* string when the value has no such segment
UserSegment(index) ==
    LET segments == Split(store[messageUser], ";")
    IN  IF index <= Len(segments) THEN Trim(segments[index]) ELSE ""

\* The destination and the reject treatment with the per-user override as
\* stated: a non-empty segment of a user key that is read, else the global
\* value
OverriddenDestination ==
    IF UserKeyIsRead /\ UserSegment(1) # "" THEN UserSegment(1) ELSE globalDestination
OverriddenRejectTreatment ==
    IF UserKeyIsRead /\ UserSegment(2) # "" THEN UserSegment(2)
    ELSE globalRejectTreatment

\* The valid addresses of a compound destination specification
ValidAddressesOf(compoundDestinationText) ==
    { ValidOccurrences(compoundDestinationText)[k].address :
        k \in 1..Len(ValidOccurrences(compoundDestinationText)) }

\* C16: without a user key (absent, or stored user configuration disabled)
\* the destination and the reject treatment are the global ones and the user
\* is allowed only by the global allowed users; with a user key the user is
\* allowed, a segment that is empty after trimming defers to the global
\* value and a non-empty segment overrides it; the forwards go to the
\* addresses of the destination and of the reject treatment so resolved
C16_UserOverride ==
    PastAllowCheck =>
        /\ userDestination = OverriddenDestination
        /\ userRejectTreatment = OverriddenRejectTreatment
        /\ messageUserIsAllowed <=>
              (UserKeyIsRead \/ UsersIsWildcard \/ UserIsListed)
        /\ UserKeyIsRead => messageUserIsAllowed
        /\ \A i \in 1..Len(forwardCalls) :
              forwardCalls[i].destination \in
                  ValidAddressesOf(IF forwardCalls[i].actionType = "AcceptForwarding"
                                   THEN OverriddenDestination
                                   ELSE OverriddenRejectTreatment)

\* Reached: a user key whose two segments are empty after trimming, the user
\* not among the allowed users, the message accepted at the global destination
C16_Witness ==
    /\ pc = "Accepted"
    /\ UserKeyIsRead /\ store[messageUser] = " ; "
    /\ ~UsersIsWildcard /\ ~UserIsListed
    /\ forwardCalls[1].destination = "g@e.io"

\* Reached: a user key that overrides the destination and the reject
\* treatment, the message forwarded to the user's reject treatment
C16_WitnessOverride ==
    /\ pc = "RejectForwarded"
    /\ UserKeyIsRead /\ store[messageUser] = "u@e.io;v@e.io"
    /\ forwardCalls[1].destination = "u@e.io"
    /\ forwardCalls[Len(forwardCalls)].destination = "v@e.io"

\* The subaddress key of the user
UserSubaddressKey == messageUser \o FORMAT_LOCAL_PART_SEPARATOR

\* The per-user subaddress override, given whether the subaddress key of the
\* user counts as present: a present value replaces the global allowed
\* subaddresses; a present empty value allows no subaddress and allows the
\* recipient without subaddress; the global value applies otherwise
SubaddressOverride(present) ==
    /\ userSubaddresses =
          IF present THEN ToLowerCase(Trim(store[UserSubaddressKey]))
          ELSE globalSubaddresses
    /\ (present /\ Trim(store[UserSubaddressKey]) = "")
       => /\ messageSubaddressIsAllowed <=> messageSubaddress = ""
          /\ messageUserIsAllowed =>
                (StageStarted("AcceptForwarding") <=> messageSubaddress = "")

\* C17 as stated: the key '{user}+' overrides whenever it is in the store
C17_StoredKeyOverrides ==
    PastAllowCheck => SubaddressOverride(UserSubaddressKey \in DOMAIN store)

\* C17: when the key '{user}+' is in the store and stored user configuration
\* is enabled, its value replaces the global allowed subaddresses entirely,
\* and an empty value allows no subaddress (it does not defer to the global
\* value) while a recipient without subaddress is still allowed; when the key
\* is absent, or stored user configuration is disabled, the global allowed
\* subaddresses apply
C17_ReadKeyOverrides ==
    PastAllowCheck =>
        SubaddressOverride(/\ booleanFromString(Configured("USE_STORED_USER_CONFIGURATION"))
                           /\ UserSubaddressKey \in DOMAIN store)

\* Reached: a recipient with a subaddress that the global allowed
\* subaddresses list, rejected because the subaddress key of the user holds
\* the empty string
C17_Witness ==
    /\ pc = "DirectRejected"
    /\ booleanFromString(Configured("USE_STORED_USER_CONFIGURATION"))
    /\ UserSubaddressKey \in DOMAIN store /\ store[UserSubaddressKey] = ""
    /\ messageUserIsAllowed
    /\ messageSubaddress = "suba" /\ globalSubaddresses = "suba"

\* The lower-cased local part split at the first occurrence of a separator
SplitAtFirst(lowerCaseLocalPart, separator) ==
    LET first == IndexOf(lowerCaseLocalPart, separator)
    IN  IF first = 0 THEN << lowerCaseLocalPart, "" >>
        ELSE << SubSeq(lowerCaseLocalPart, 1, first - 1),
                SubSeq(lowerCaseLocalPart, first + Len(separator),
                       Len(lowerCaseLocalPart)) >>

\* The local parts addressLocalParts is compared on: the recipients of the
\* scenarios in other letter cases
LocalPartVariants ==
    { "user1", "User1", "USER1", "user1+suba", "User1+SubA", "USER1+SUBA",
      "user1+A+b", "+SUB", "user1--sub+X", "USERXSUB", "userxsub" }

CaseVariantsAgree ==
    \A variant \in LocalPartVariants :
        ToLowerCase(variant) = ToLowerCase(RecipientLocalPart)
        => addressLocalParts(variant, FORMAT_LOCAL_PART_SEPARATOR)
               = << messageUser, messageSubaddress >>

\* The keys of the user configuration were read for the given user
UserKeysReadFor(user) ==
    booleanFromString(Configured("USE_STORED_USER_CONFIGURATION"))
    => SubSeq(storeReads, Len(storeReads) - 1, Len(storeReads))
           = << user, user \o FORMAT_LOCAL_PART_SEPARATOR >>

\* C18 as stated: for any separator the local part is split, irrespective of
\* letter case, at the first occurrence of the separator
C18_SplitAtFirstSeparatorAnyCase ==
    PastAllowCheck =>
        /\ << messageUser, messageSubaddress >> =
              SplitAtFirst(ToLowerCase(RecipientLocalPart),
                           ToLowerCase(FORMAT_LOCAL_PART_SEPARATOR))
        /\ CaseVariantsAgree

\* C18: for any local part and any separator without upper-case letter,
\* addressLocalParts splits at the first occurrence of the separator only,
\* irrespective of the letter case of the local part, into (user,
\* subaddress), both lower-cased, with subaddress '' when the separator does
\* not occur; a separator with an upper-case letter is never found, the
\* result being (lower-cased local part, ''); local parts that differ only
\* in letter case yield the same (user, subaddress); the user keys of the
\* store are read for this user
C18_SplitAtFirstSeparator ==
    LET expected ==
            IF FORMAT_LOCAL_PART_SEPARATOR = ToLowerCase(FORMAT_LOCAL_PART_SEPARATOR)
            THEN SplitAtFirst(ToLowerCase(RecipientLocalPart),
                              FORMAT_LOCAL_PART_SEPARATOR)
            ELSE << ToLowerCase(RecipientLocalPart), "" >>
    IN  PastAllowCheck =>
            /\ << messageUser, messageSubaddress >> = expected
            /\ CaseVariantsAgree
            /\ UserKeysReadFor(expected[1])

\* Reached: a recipient in upper case with two separators in its local
\* part, split at the first one, the user keys read for the lower-cased user
C18_Witness ==
    /\ PastAllowCheck
    /\ to = "User1--Sub+x@domain.com"
    /\ FORMAT_LOCAL_PART_SEPARATOR = "+"
    /\ << messageUser, messageSubaddress >> = << "user1--sub", "x" >>
    /\ storeReads = << "user1--sub", "user1--sub+" >>

\* Reached: separators in the local part of which only the first one splits
C18_WitnessFirstOnly ==
    /\ PastAllowCheck
    /\ to = "user1+a+b@domain.com"
    /\ << messageUser, messageSubaddress >> = << "user1", "a+b" >>

\* The backup candidates of a compound destination specification, trimmed
TrimmedCandidatesOf(compoundDestinationText) ==
    LET primaryDestinationTexts == Split(compoundDestinationText, ",")
    IN  UNION { { Trim(Split(primaryDestinationTexts[i], ":")[j]) :
                    j \in 1..Len(Split(primaryDestinationTexts[i], ":")) } :
                i \in 1..Len(primaryDestinationTexts) }

IsShorthand(candidate) ==
    \/ StartsWith(candidate, FORMAT_LOCAL_PART_SEPARATOR)
    \/ StartsWith(candidate, "@")

\* The address a trimmed candidate stands for
AddressFor(candidate) ==
    IF IsShorthand(candidate)
    THEN ToLowerCase(addressLocalParts(RecipientLocalPart,
                                       FORMAT_LOCAL_PART_SEPARATOR)[1]) \o candidate
    ELSE candidate

\* The text a stage takes its compound destination from
StageText(actionType) ==
    IF actionType = "AcceptForwarding" THEN userDestination ELSE userRejectTreatment

\* C19: a trimmed backup candidate that begins with the subaddress separator
\* or with '@' is forwarded to as the lower-cased message user followed by
\* the candidate; every other candidate is forwarded to character for
\* character as configured, in particular in its configured letter case
C19_DestinationShorthand ==
    PastAllowCheck =>
        \A actionType \in Stages :
            /\ \A i \in 1..Len(forwardCalls) :
                  forwardCalls[i].actionType = actionType
                  => \E candidate \in TrimmedCandidatesOf(StageText(actionType)) :
                        forwardCalls[i].destination = AddressFor(candidate)
            /\ LET validBackup ==
                       validateCompoundDestination(StageText(actionType)).validBackup
               IN  { validBackup[k] : k \in 1..Len(validBackup) } =
                       { AddressFor(candidate) :
                           candidate \in
                               { c \in TrimmedCandidatesOf(StageText(actionType)) :
                                   isValidEmailAddress(
                                       AddressFor(c),
                                       Configured("FORMAT_VALID_EMAIL_ADDRESS_REGEXP")) } }

\* Reached: a recipient in upper case with a subaddress; the first backup, a
\* shorthand, attempted at the lower-cased user; the second backup accepted
\* in its configured letter case
C19_Witness ==
    /\ pc = "Accepted"
    /\ to = "User1+SubA@domain.com"
    /\ environment["DESTINATION"] = " +x@e.io : B@E.io"
    /\ FORMAT_LOCAL_PART_SEPARATOR = "+"
    /\ Len(forwardCalls) = 2
    /\ forwardCalls[1].destination = "user1+x@e.io"
    /\ forwardCalls[2].destination = "B@E.io"

\* The trimmed value of a configuration name, from the environment or, when
\* the environment does not set it, from the defaults
TrimmedSetting(name) ==
    Trim(IF name \in DOMAIN environment THEN environment[name] ELSE DEFAULTS[name])

\* C20: every forward issued while the accept destination is attempted
\* carries the custom header with the pass value, every forward issued while
\* the reject treatment is attempted carries the custom header with the fail
\* value, and no forward carries any other header or value
C20_ForwardHeaders ==
    \A i \in 1..Len(forwardCalls) :
        /\ forwardCalls[i].headerName = TrimmedSetting("CUSTOM_HEADER")
        /\ forwardCalls[i].actionType \in Stages
        /\ forwardCalls[i].headerValue =
              IF forwardCalls[i].actionType = "AcceptForwarding"
              THEN TrimmedSetting("CUSTOM_HEADER_PASS")
              ELSE TrimmedSetting("CUSTOM_HEADER_FAIL")
        /\ (pc \in Stages /\ forwardCalls[i].status = "pending")
           => forwardCalls[i].actionType = pc

\* Reached: configured header values; the accept forward with the pass value
\* fails on both backups, the reject forward with the fail value succeeds
C20_Witness ==
    /\ pc = "RejectForwarded"
    /\ "CUSTOM_HEADER_PASS" \in DOMAIN environment
    /\ Len(forwardCalls) = 3
    /\ forwardCalls[1].headerValue = "yes" /\ forwardCalls[1].status = "rejected"
    /\ forwardCalls[2].headerValue = "yes" /\ forwardCalls[2].status = "rejected"
    /\ forwardCalls[3].headerValue = "no" /\ forwardCalls[3].status = "resolved"

\* C21: message.setReject is called at most once in an invocation, and never
\* in an invocation that raises a recoverable forwarding error
C21_RejectAtMostOnce ==
    /\ Len(rejectCalls) <= 1
    /\ RaisedForwardingError => rejectCalls = << >>
    /\ rejectCalls # << >> => pc = "DirectRejected"

\* Reached: two primary destinations, the first fails recoverably on its
\* only backup, the second succeeds; the invocation raises without reject
C21_Witness ==
    /\ RaisedForwardingError
    /\ Len(forwardCalls) = 2
    /\ forwardCalls[1].status = "rejected"
    /\ forwardCalls[2].status = "resolved"
    /\ forwardCalls[1].primaryDestinationId # forwardCalls[2].primaryDestinationId
    /\ rejectCalls = << >>

\* Reached: an invocation that raises in its reject forward, after an accept
\* forward that failed unrecoverably
C21_WitnessRejectForward ==
    /\ RaisedForwardingError
    /\ \E i \in 1..Len(forwardCalls) : forwardCalls[i].actionType = "RejectForwarding"
    /\ \E i \in 1..Len(forwardCalls) : forwardCalls[i].actionType = "AcceptForwarding"
    /\ rejectCalls = << >>

\* The recoverable-error pattern is the default one
DefaultRecoverablePattern ==
    Configured("CLOUDFLARE_RECOVERABLE_FORWARDING_ERROR_REGEXP")
        = DEFAULTS.CLOUDFLARE_RECOVERABLE_FORWARDING_ERROR_REGEXP

\* C22: with the default recoverable-error pattern, an invocation for an
\* allowed recipient whose destination has a valid address either
\* accept-forwards successfully on every primary destination or raises a
\* recoverable forwarding error: no forward failure leads to a reject forward
\* or to a direct reject
C22_DefaultPatternNeverRejects ==
    (/\ DefaultRecoverablePattern
     /\ PastAllowCheck
     /\ IsAllowed
     /\ Len(acceptCompoundDestination.validPrimary) > 0)
    => /\ rejectCalls = << >>
       /\ \A i \in 1..Len(forwardCalls) :
             forwardCalls[i].actionType = "AcceptForwarding"
       /\ pc \in { "AcceptForwarding", "Accepted", "Raised" }
       /\ pc = "Raised" => RaisedForwardingError
       /\ pc = "Accepted" =>
             \A p \in 1..Len(acceptCompoundDestination.validPrimary) :
                 PrimarySucceeded("AcceptForwarding", p)

\* Reached: under the default pattern the invocation raises on a failure
\* with the message of an unverified destination address
C22_Witness ==
    /\ DefaultRecoverablePattern
    /\ RaisedForwardingError
    /\ IsAllowed
    /\ \A i \in 1..Len(forwardCalls) :
          /\ forwardCalls[i].status = "rejected"
          /\ forwardCalls[i].errorMessage =
                CLOUDFLARE_FORWARDING_UNVERIFIED_ADDRESS_MESSAGE_PREFIX

\* Reached: under the default pattern a message accepted on each of three
\* primary destinations, one of them on its second backup
C22_WitnessAccepted ==
    /\ DefaultRecoverablePattern
    /\ pc = "Accepted"
    /\ Len(acceptCompoundDestination.validPrimary) >= 2
    /\ \E i \in 1..Len(forwardCalls) : forwardCalls[i].status = "rejected"

\* Nothing is configured and nothing is stored
AllDefaults == DOMAIN environment = {} /\ DOMAIN store = {}

\* C23: with every configuration value at its default and an empty store,
\* for every recipient no forward is attempted and message.setReject is
\* called exactly once, with the default reason 'Address does not exist'
C23_DefaultsRejectAll ==
    AllDefaults =>
        /\ forwardCalls = << >>
        /\ pc # "Raised"
        /\ Terminated =>
              /\ pc = "DirectRejected"
              /\ rejectCalls = << "Address does not exist" >>
        /\ ~Terminated => rejectCalls = << >>

\* Reached: under the defaults a recipient with a subaddress is rejected
\* with the default reason
C23_Witness ==
    /\ AllDefaults
    /\ to = "user2+subB@domain.com"
    /\ pc = "DirectRejected"
    /\ forwardCalls = << >>
    /\ rejectCalls = << "Address does not exist" >>

\* The configured custom header name matches the pattern of valid names
CustomHeaderMatches ==
    RegExpTest(Configured("FORMAT_VALID_CUSTOM_HEADER_REGEXP"),
               TrimmedSetting("CUSTOM_HEADER"))

\* C24: when the configured custom header name does not match the pattern of
\* valid custom headers the handler raises a setup error before it processes
\* the message: no user key of the store is read, no forward is attempted
\* and message.setReject is not called
C24_InvalidCustomHeaderRaises ==
    ~CustomHeaderMatches =>
        /\ Len(loaded) <= Len(GlobalKeys)
        /\ \A i \in 1..Len(storeReads) :
              \E k \in 1..Len(GlobalKeys) : storeReads[i] = GlobalKeys[k]
        /\ forwardCalls = << >>
        /\ rejectCalls = << >>
        /\ pc \in { "LoadGlobal", "Raised" }
        /\ Len(loaded) = Len(GlobalKeys) =>
              /\ pc = "Raised"
              /\ exception = "Invalid custom header " \o TrimmedSetting("CUSTOM_HEADER")

\* Reached: a custom header name without 'X-', a user whose key is stored;
\* the handler raised after the global configuration, the user key unread
C24_Witness ==
    /\ pc = "Raised"
    /\ exception = "Invalid custom header My-Header"
    /\ "user1" \in DOMAIN store /\ messageUser = "user1"
    /\ storeReads = GlobalKeys
    /\ forwardCalls = << >> /\ rejectCalls = << >>

\* The candidates of a compound destination specification that are not empty
\* and fail the pattern of valid email addresses, as addresses
InvalidAddressesOf(compoundDestinationText) ==
    { AddressFor(candidate) :
        candidate \in
            { c \in TrimmedCandidatesOf(compoundDestinationText) :
                /\ AddressFor(c) # ""
                /\ ~isValidEmailAddress(AddressFor(c),
                                        Configured("FORMAT_VALID_EMAIL_ADDRESS_REGEXP")) } }

\* A warning about invalidly formatted destinations of the stage was emitted
WarnedAboutInvalid(actionType) ==
    \E i \in 1..Len(consoleOutputCalls) :
        /\ consoleOutputCalls[i].level = "warn"
        /\ consoleOutputCalls[i].issue = "invalidly formatted"
        /\ consoleOutputCalls[i].destinationType =
              (IF actionType = "AcceptForwarding" THEN "AcceptForward"
               ELSE "RejectForward")

\* C25 as stated: every non-empty trimmed candidate that fails the pattern of
\* valid email addresses is dropped from the validated compound destination
\* and is in the invalidBackup list validateCompoundDestination returns, and
\* a stage that forwards to such a destination warns about it
C25_InvalidCandidatesRecorded ==
    PastAllowCheck =>
        \A actionType \in Stages :
            LET validated == validateCompoundDestination(StageText(actionType))
                invalid == InvalidAddressesOf(StageText(actionType))
            IN  /\ \A k \in 1..Len(validated.validBackup) :
                      validated.validBackup[k] \notin invalid
                /\ invalid \subseteq
                      { validated.invalidBackup[k] :
                          k \in 1..Len(validated.invalidBackup) }
                /\ (invalid # {} /\ Len(forwardCalls) > 0
                    /\ forwardCalls[Len(forwardCalls)].actionType = actionType)
                   => WarnedAboutInvalid(actionType)

\* What the handler does instead (C25): an invalid candidate is dropped and
\* the valid ones are forwarded to, but the invalidBackup list of the
\* validated compound destination is always empty and no warning about an
\* invalidly formatted destination is ever emitted
C25_InvalidCandidatesDroppedUnrecorded ==
    PastAllowCheck =>
        /\ \A actionType \in Stages :
              LET validated == validateCompoundDestination(StageText(actionType))
              IN  /\ validated.invalidBackup = << >>
                  /\ \A k \in 1..Len(validated.validBackup) :
                        validated.validBackup[k]
                            \notin InvalidAddressesOf(StageText(actionType))
                  /\ ~WarnedAboutInvalid(actionType)
        /\ \A i \in 1..Len(forwardCalls) :
              forwardCalls[i].destination
                  \notin InvalidAddressesOf(StageText(forwardCalls[i].actionType))

\* Reached: a user destination with an invalid candidate next to the global
\* one; no forward is attempted on it and the handler goes on
C25_Witness ==
    /\ Terminated
    /\ PastAllowCheck
    /\ InvalidAddressesOf(userDestination) # {}
    /\ consoleOutputCalls # << >>
    /\ \A i \in 1..Len(consoleOutputCalls) : consoleOutputCalls[i].level # "warn"

\* The switches of the stored configuration, as configured
StoredAddressConfigurationDisabled ==
    ~booleanFromString(Configured("USE_STORED_ADDRESS_CONFIGURATION"))
StoredUserConfigurationDisabled ==
    ~booleanFromString(Configured("USE_STORED_USER_CONFIGURATION"))

KeysRead == { storeReads[i] : i \in 1..Len(storeReads) }

\* The lookups made so far, among the given positions, all yielded undefined
LookupsUndefined(positions) ==
    \A k \in positions : k <= Len(loaded) => loaded[k] = undefined

\* C27: with stored address configuration disabled the keys '@DESTINATION',
\* '@REJECT_TREATMENT', '@SUBADDRESSES' and '@USERS' are never read and the
\* handler resolves the global fields from the environment and the defaults
\* alone, whatever the store holds under these keys; with stored user
\* configuration disabled the keys '{user}' and '{user}+' are never read,
\* destination, reject treatment and allowed subaddresses are the global
\* ones, and a stored '{user}' key does not make the user allowed.  What the
\* handler forwards and rejects depends on the store through these lookups
\* only, so stores that differ under the disabled keys behave identically.
C27_GatedKeysDoNotInterfere ==
    /\ StoredAddressConfigurationDisabled =>
          /\ KeysRead \cap { GlobalKeys[k] : k \in 1..Len(GlobalKeys) } = {}
          /\ LookupsUndefined(1..Len(GlobalKeys))
          /\ GlobalConfigurationLoaded =>
                /\ globalDestination = TrimmedSetting("DESTINATION")
                /\ globalRejectTreatment = TrimmedSetting("REJECT_TREATMENT")
                /\ globalSubaddresses = ToLowerCase(TrimmedSetting("SUBADDRESSES"))
                /\ globalUsers = ToLowerCase(TrimmedSetting("USERS"))
    /\ StoredUserConfigurationDisabled =>
          /\ KeysRead \subseteq { GlobalKeys[k] : k \in 1..Len(GlobalKeys) }
          /\ LookupsUndefined((Len(GlobalKeys) + 1)..(Len(GlobalKeys) + 2))
          /\ PastAllowCheck =>
                /\ userDestination = globalDestination
                /\ userRejectTreatment = globalRejectTreatment
                /\ userSubaddresses = globalSubaddresses
                /\ messageUserIsAllowed <=> (UsersIsWildcard \/ UserIsListed)
                /\ StageStarted("AcceptForwarding") =>
                      (UsersIsWildcard \/ UserIsListed)

\* Reached: stored user configuration disabled, the user key stored, the
\* user not among the allowed users: the message is rejected, the key unread
C27_Witness ==
    /\ StoredUserConfigurationDisabled
    /\ pc = "DirectRejected"
    /\ messageUser \in DOMAIN store
    /\ messageUser \notin KeysRead
    /\ ~messageUserIsAllowed

\* Reached: stored address configuration disabled, every '@' key stored, the
\* message accepted at the configured destination, nothing read under '@'
C27_WitnessAddress ==
    /\ StoredAddressConfigurationDisabled
    /\ pc = "Accepted"
    /\ { GlobalKeys[k] : k \in 1..Len(GlobalKeys) } \subseteq DOMAIN store
    /\ forwardCalls[1].destination = "g@e.io"
    /\ store["@DESTINATION"] = "s@e.io"


\* Some forward attempt of the invocation failed with a recoverable error
SomeRecoverableError ==
    \E actionType \in Stages : \E p \in PrimariesOf(actionType) :
        PrimaryFailedRecoverably(actionType, p)

\* Some primary destination failed recoverably and never succeeded
SomeUnmaskedRecoverableError ==
    \E actionType \in Stages : \E p \in PrimariesOf(actionType) :
        /\ PrimaryFailedRecoverably(actionType, p)
        /\ ~PrimarySucceeded(actionType, p)

\* C28 as stated: if one or more recoverable errors occur while forwarding a
\* message, the handler throws an exception.
C28_AnyRecoverableErrorRaises ==
    (Terminated /\ SomeRecoverableError) => RaisedForwardingError

\* C28 as the code has it: the handler throws the forwarding exception
\* exactly when some primary destination recorded a recoverable error and
\* succeeded on none of its backups; a recoverable error of a primary that
\* went on to succeed on a later backup is logged and raises nothing.
C28_UnmaskedRecoverableErrorRaises ==
    Terminated => (RaisedForwardingError <=> SomeUnmaskedRecoverableError)

\* Reached: the forwarding exception raised by the reject forward, after an
\* accept forward that failed with unrecoverable errors only
C28_Witness ==
    /\ RaisedForwardingError
    /\ PrimariesOf("AcceptForwarding") # {}
    /\ \E p \in PrimariesOf("RejectForwarding") :
          /\ PrimaryFailedRecoverably("RejectForwarding", p)
          /\ ~PrimarySucceeded("RejectForwarding", p)

\* Reached: terminated without an exception although a recoverable error
\* occurred
C28_WitnessMasked ==
    /\ Completed
    /\ SomeRecoverableError


\* The resolved global allowed users are empty and the store has no key for
\* the user of the recipient
NoUserAllowedByConfiguration ==
    /\ globalUsers = ""
    /\ messageUser \notin DOMAIN store

\* C29: an empty global allowed-users value means no users: when the
\* resolved global allowed-users value is the empty string and the store has
\* no key for the recipient's user, no recipient is treated as allowed and
\* accept forwarding is never attempted.
C29_EmptyUsersAllowNoOne ==
    (PastAllowCheck /\ NoUserAllowedByConfiguration)
    => /\ ~messageUserIsAllowed
       /\ ~StageStarted("AcceptForwarding")
       /\ ~PassForwardSucceeded

\* What the code guarantees: with empty allowed users and no stored user key
\* only a recipient whose local part has an empty user part is allowed
C29_EmptyUsersAllowOnlyEmptyUser ==
    (PastAllowCheck /\ NoUserAllowedByConfiguration)
    => /\ messageUserIsAllowed <=> messageUser = ""
       /\ StageStarted("AcceptForwarding") => messageUser = ""

\* Reached: allowed users empty, no user key stored, and the message to a
\* recipient without user part accepted at the configured destination
C29_Witness ==
    /\ pc = "Accepted"
    /\ NoUserAllowedByConfiguration
    /\ messageUser = ""
    /\ PassForwardSucceeded


\* No reject treatment is configured: neither the environment, nor the
\* stored global key when it is read, nor the user key provides one
NoRejectTreatmentConfigured ==
    /\ "REJECT_TREATMENT" \notin DOMAIN environment
    /\ "@REJECT_TREATMENT" \notin DOMAIN store
    /\ ~(UserKeyIsRead /\ UserSegment(2) # "")

\* C30 as stated: when no reject treatment is configured in the store or the
\* environment, the direct-reject reason is ': Invalid recipient' preceded by
\* the recipient's local part.
C30_DefaultReasonInvalidRecipient ==
    (pc = "DirectRejected" /\ NoRejectTreatmentConfigured)
    => rejectCalls = << RecipientLocalPart \o ": Invalid recipient" >>

\* C30 as the code has it: when no reject treatment is configured in the
\* store or the environment, the direct-reject reason is the default
\* 'Address does not exist', which begins with a letter and is passed to
\* setReject unchanged, without the recipient's local part.
C30_DefaultReasonAddressDoesNotExist ==
    (pc = "DirectRejected" /\ NoRejectTreatmentConfigured)
    => rejectCalls = << "Address does not exist" >>

\* Reached: a direct reject with the default reason of a recipient that has
\* a subaddress, after a failed accept forward
C30_Witness ==
    /\ pc = "DirectRejected"
    /\ NoRejectTreatmentConfigured
    /\ messageSubaddress # ""
    /\ PrimariesOf("AcceptForwarding") # {}


\* The k-th stored configuration value the handler looks up, and its switch
LookupKey(k) ==
    IF k <= Len(GlobalKeys) THEN GlobalKeys[k] ELSE UserKeys[k - Len(GlobalKeys)]
LookupSwitch(k) ==
    IF k <= Len(GlobalKeys) THEN useStoredAddressConfiguration
    ELSE useStoredUserConfiguration

\* The keys an invocation reads during its first n lookups
RECURSIVE ReadsOfFirst(_)
ReadsOfFirst(n) ==
    IF n = 0 THEN << >>
    ELSE ReadsOfFirst(n - 1) \o (IF LookupSwitch(n) THEN << LookupKey(n) >> ELSE << >>)

\* What the running invocation has read is what its own recipient, the
\* environment and the store determine
ReadsAsAlone ==
    /\ Len(loaded) <= Len(GlobalKeys) + Len(UserKeys)
    /\ \A k \in 1..Len(loaded) :
          loaded[k] = storedConfigurationValue(LookupSwitch(k), LookupKey(k))
    /\ storeReads = ReadsOfFirst(Len(loaded))

\* Every forward call of the running invocation goes to an address of its
\* own compound destination, in the order of the backups, with the header of
\* its stage; every primary destination of a stage it began was attempted
ForwardsAsAlone ==
    forwardCalls # << >> =>
        /\ PastAllowCheck
        /\ \A i \in 1..Len(forwardCalls) :
              LET call == forwardCalls[i]
              IN  /\ call.actionType \in Stages
                  /\ StageStarted(call.actionType)
                  /\ call.primaryDestinationId \in 1..Len(StageDestination(call.actionType))
                  /\ call.backupDestinationId \in
                        1..Len(StageDestination(call.actionType)[call.primaryDestinationId])
                  /\ call.destination =
                        StageDestination(call.actionType)[call.primaryDestinationId]
                                                         [call.backupDestinationId]
                  /\ call.headerValue = IF call.actionType = "AcceptForwarding"
                                        THEN customHeaderPass ELSE customHeaderFail
        /\ \A actionType \in Stages :
              PrimariesOf(actionType) \in { {}, 1..Len(StageDestination(actionType)) }

\* Reject is invoked by the running invocation only, once, as it ends, with
\* the reason resolved for its own recipient
RejectsAsAlone ==
    IF pc = "DirectRejected" THEN rejectCalls = << fullRejectReason >>
    ELSE rejectCalls = << >>

\* C26: invocations are isolated.  However two invocations are interleaved
\* at their awaits, the store reads, the forward calls and the reject call
\* of each are those its own recipient and the shared configuration
\* determine, and each ends with one of the outcomes of an invocation that
\* runs alone; an invocation that follows a raised one starts from nothing
\* and attempts every primary destination again, those that had succeeded
\* included.
C26_InvocationsIsolated ==
    /\ ReadsAsAlone
    /\ RejectsAsAlone
    /\ ForwardsAsAlone
    /\ C1_ExactlyOneOutcome
    /\ C28_UnmaskedRecoverableErrorRaises
    /\ (other.pc = "Raised" /\ other.to = to /\ StageStarted("AcceptForwarding"))
       => PrimariesOf("AcceptForwarding") = 1..Len(acceptCompoundDestination.validPrimary)

\* Reached: one invocation suspended in its accept forward with a forward
\* resolved and one pending, while the invocation for another recipient ran
\* from its first store read to its direct reject
C26_Witness ==
    /\ other.pc = "AcceptForwarding"
    /\ \E i, j \in 1..Len(other.forwardCalls) :
          /\ other.forwardCalls[i].status = "resolved"
          /\ other.forwardCalls[j].status = "pending"
    /\ other.to # to
    /\ pc = "DirectRejected"
    /\ rejectCalls = << "User2+x: unknown" >>
    /\ forwardCalls = << >>

\* Reached: the invocation that follows a raised one is accepted after it
\* forwarded again to a destination the raised one had already reached
C26_WitnessRetry ==
    /\ other.pc = "Raised"
    /\ other.to = to
    /\ pc = "Accepted"
    /\ \E i \in 1..Len(other.forwardCalls), j \in 1..Len(forwardCalls) :
          /\ other.forwardCalls[i].status = "resolved"
          /\ forwardCalls[j].status = "resolved"
          /\ forwardCalls[j].destination = other.forwardCalls[i].destination


\* The configured pattern of recoverable errors matches the message
MatchesRecoverablePattern(errorMessage) ==
    RegExpTest(Configured("CLOUDFLARE_RECOVERABLE_FORWARDING_ERROR_REGEXP"), errorMessage)

\* The result of primary destination p of the running stage: every backup
\* failed
ResultExhausted(p) ==
    /\ primaries[p].returned
    /\ ~primaries[p].wasSuccessful

\* The failures recorded by primary destination p, classified in order:
\* TRUE for a recoverable one
ClassifiedErrors(p) ==
    [ i \in 1..Len(primaries[p].errors) |->
        MatchesRecoverablePattern(primaries[p].errors[i]) ]

\* C31: for a primary destination whose backups are all exhausted without
\* success, hadRecoverableError is true exactly when at least one of its
\* recorded failures, at any position of the chain, matched the pattern of
\* recoverable errors; a chain that failed as (recoverable, unrecoverable)
\* and one that failed as (unrecoverable, recoverable) both make the handler
\* raise once the compound forward settles.
C31_AnyFailureOfChainCounts ==
    \A p \in 1..Len(primaries) :
        ResultExhausted(p) =>
            /\ Len(primaries[p].errors) = Len(primaries[p].primaryDestination)
            /\ primaries[p].hadRecoverableError
               <=> \E i \in 1..Len(primaries[p].errors) : ClassifiedErrors(p)[i]
            /\ (\E i \in 1..Len(primaries[p].errors) : ClassifiedErrors(p)[i])
               => /\ pc \in Stages \/ RaisedForwardingError
                  /\ rejectCalls = << >>

\* Reached: raised by a chain that failed as (recoverable, unrecoverable)
C31_Witness ==
    /\ RaisedForwardingError
    /\ \E p \in 1..Len(primaries) :
          /\ ResultExhausted(p)
          /\ ClassifiedErrors(p) = << TRUE, FALSE >>

\* Reached: raised by a chain that failed as (unrecoverable, recoverable)
C31_WitnessLast ==
    /\ RaisedForwardingError
    /\ \E p \in 1..Len(primaries) :
          /\ ResultExhausted(p)
          /\ ClassifiedErrors(p) = << FALSE, TRUE >>


\* The destination specification a stage forwards to, as resolved
StageSpecification(actionType) ==
    IF actionType = "AcceptForwarding" THEN userDestination ELSE userRejectTreatment

\* C32 (no internal retry): within one compound forward, forward is attempted
\* at most once on each address, so a failed address is never attempted
\* again, and the number of forward attempts of one invocation never exceeds
\* the number of valid distinct addresses of the accept destination plus that
\* of the reject treatment.
C32_NoInternalRetry ==
    forwardCalls # << >> =>
        /\ \A i, j \in 1..Len(forwardCalls) :
              ( /\ i < j
                /\ forwardCalls[i].actionType = forwardCalls[j].actionType )
              => forwardCalls[i].destination # forwardCalls[j].destination
        /\ \A actionType \in Stages :
              Cardinality({ i \in 1..Len(forwardCalls) :
                              forwardCalls[i].actionType = actionType })
                 <= Cardinality(ValidAddressesOf(StageSpecification(actionType)))
        /\ Len(forwardCalls) <= Cardinality(ValidAddressesOf(userDestination))
                                + Cardinality(ValidAddressesOf(userRejectTreatment))

\* Reached: every address of both stages attempted once and failed, with an
\* address repeated in the specification and one common to both stages
C32_Witness ==
    /\ pc = "DirectRejected"
    /\ Len(forwardCalls) = Cardinality(ValidAddressesOf(userDestination))
                           + Cardinality(ValidAddressesOf(userRejectTreatment))
    /\ Cardinality(ValidAddressesOf(userDestination)) >= 2
    /\ ValidAddressesOf(userDestination) \cap ValidAddressesOf(userRejectTreatment) # {}
    /\ Len(ValidOccurrences(userDestination)) > Cardinality(ValidAddressesOf(userDestination))


\* The addresses of the primaries of a validated compound destination, one
\* primary after the other
RECURSIVE FlatAddresses(_)
FlatAddresses(validPrimary) ==
    IF validPrimary = << >> THEN << >>
    ELSE Head(validPrimary) \o FlatAddresses(Tail(validPrimary))

\* Where an address first occurs among the valid addresses of a specification
FirstPosition(occurrences, address) ==
    CHOOSE k \in 1..Len(occurrences) :
        /\ occurrences[k].address = address
        /\ \A m \in 1..(k - 1) : occurrences[m].address # address

\* The validated form of a compound destination specification is well formed
WellFormed(compoundDestinationText) ==
    LET validPrimary == validateCompoundDestination(compoundDestinationText).validPrimary
        occurrences == ValidOccurrences(compoundDestinationText)
        flat == FlatAddresses(validPrimary)
        PrimaryOf(address) == occurrences[FirstPosition(occurrences, address)].primary
    IN  /\ \A p \in 1..Len(validPrimary) : validPrimary[p] # << >>
        /\ \A k \in 1..Len(flat) :
              /\ RegExpTest(Configured("FORMAT_VALID_EMAIL_ADDRESS_REGEXP"), flat[k])
              /\ Includes(flat[k], "@")
              /\ \E m \in 1..Len(occurrences) : occurrences[m].address = flat[k]
        /\ \A k \in 1..(Len(flat) - 1) :
              FirstPosition(occurrences, flat[k]) < FirstPosition(occurrences, flat[k + 1])
        /\ \A p \in 1..Len(validPrimary) : \A b \in 1..Len(validPrimary[p]) :
              PrimaryOf(validPrimary[p][b]) = PrimaryOf(validPrimary[p][1])
        /\ \A p \in 1..(Len(validPrimary) - 1) :
              PrimaryOf(validPrimary[p][1]) < PrimaryOf(validPrimary[p + 1][1])

ConfigurationLoaded == Len(loaded) = Len(GlobalKeys) + Len(UserKeys)

\* C33: every validated compound destination is well formed: each primary
\* destination in validPrimary is non-empty (a primary specification with no
\* surviving backup is dropped entirely), every address in it matches the
\* configured pattern of email addresses, and the surviving primaries and
\* backups keep the relative order of the specification.
C33_ValidatedDestinationWellFormed ==
    ConfigurationLoaded =>
        /\ WellFormed(userDestination)
        /\ WellFormed(userRejectTreatment)

\* Reached: a specification of three primaries whose second keeps no backup
\* (a repeated address and an invalid candidate) is validated to two
\* primaries, and both are forwarded to
C33_Witness ==
    /\ PastAllowCheck
    /\ Len(Split(userDestination, FORMAT_PRIMARY_ADDRESS_SEPARATOR)) = 3
    /\ acceptCompoundDestination.validPrimary = << << "a@e.io" >>, << "b@e.io", "c@e.io" >> >>
    /\ PrimariesOf("AcceptForwarding") = { 1, 2 }


\* The user of the recipient, in lower case
RecipientUser ==
    SplitAtFirst(ToLowerCase(RecipientLocalPart), FORMAT_LOCAL_PART_SEPARATOR)[1]

\* The keys an invocation for the recipient may read: the four global keys,
\* the user key and the subaddress key of the user
ReadableKeys ==
    { "@DESTINATION", "@REJECT_TREATMENT", "@SUBADDRESSES", "@USERS",
      RecipientUser, RecipientUser \o FORMAT_LOCAL_PART_SEPARATOR }

\* C34: an invocation only reads the store: no step of the handler, whatever
\* outcome it leads to, changes the content of the store, and the only keys
\* ever read are '@DESTINATION', '@REJECT_TREATMENT', '@SUBADDRESSES',
\* '@USERS', '{user}' and '{user}+' (the user followed by the local-part
\* separator) for the lower-cased user of the recipient.
C34_StoreOnlyRead ==
    [][ /\ store' = store
        /\ KeysRead \subseteq ReadableKeys
        /\ to' = to =>
              \A i \in 1..Len(storeReads') : storeReads'[i] \in ReadableKeys ]_vars

\* Reached: a raised invocation for a recipient written with upper-case
\* letters, all six keys read and the store still holding its user key
C34_Witness ==
    /\ pc = "Raised"
    /\ to = "User1@domain.com"
    /\ storeReads = << "@DESTINATION", "@REJECT_TREATMENT", "@SUBADDRESSES", "@USERS",
                       "user1", "user1+" >>
    /\ "user1" \in DOMAIN store

\* Reached: the six keys read under another local-part separator
C34_WitnessSeparator ==
    /\ Completed
    /\ FORMAT_LOCAL_PART_SEPARATOR = "--"
    /\ KeysRead = { "user1", "user1--" }


\* The forward attempts of an invocation without the order they were made in
AttemptsOf(calls) == { calls[i] : i \in 1..Len(calls) }

\* Both invocations have ended
BothEnded == pc \in EndedPositions /\ other.pc \in EndedPositions

\* C35 (interleaving independence): when the outcome of forward is a fixed
\* function of the address, two invocations for the same message under the
\* same configuration attempt the same addresses with the same results, log
\* the same compound results and end the same way (position, reject reason,
\* exception), in whatever order the forwards of their concurrently running
\* primary destinations settle.
C35_InterleavingIndependence ==
    ( /\ BothEnded
      /\ other.to = to
      /\ \A i \in 1..Len(forwardCalls) :
            forwardCalls[i].errorMessage = FixedOutcome(forwardCalls[i].destination)
      /\ \A i \in 1..Len(other.forwardCalls) :
            other.forwardCalls[i].errorMessage
                = FixedOutcome(other.forwardCalls[i].destination) )
    => /\ AttemptsOf(forwardCalls) = AttemptsOf(other.forwardCalls)
       /\ consoleOutputCalls = other.consoleOutputCalls
       /\ pc = other.pc
       /\ rejectCalls = other.rejectCalls
       /\ exception = other.exception

\* Reached: both invocations ended after forwards to two primaries with
\* backups that settled in different orders
C35_Witness ==
    /\ BothEnded
    /\ forwardCalls # other.forwardCalls
    /\ Len(forwardCalls) >= 4
    /\ \E i \in 1..Len(forwardCalls) : forwardCalls[i].status = "resolved"
    /\ \E i \in 1..Len(forwardCalls) : forwardCalls[i].backupDestinationId = 3

\* Reached: both invocations raised after a recoverable failure, the orders
\* differing
C35_WitnessRaised ==
    /\ BothEnded
    /\ forwardCalls # other.forwardCalls
    /\ pc = "Raised"


\* C36 (termination): provided every store read and every forward attempt
\* eventually completes, every invocation eventually reaches one of the
\* terminal states Accepted, RejectForwarded, DirectRejected and Raised, and
\* stays in it.
C36_Terminates == <>[](pc \in EndedPositions)

\* Reached: an invocation that ended after the longest run of the scenarios,
\* every backup of both stages attempted
C36_Witness ==
    /\ Terminated
    /\ Len(storeReads) >= 2
    /\ Len(forwardCalls) >= 5
    /\ PrimariesOf("RejectForwarding") # {}


\* C37 (at most one delivery per address): within one invocation no address
\* has more than one successful forward, and a successful forward of the
\* accept stage (pass header) never occurs together with a forward attempt of
\* the reject stage (fail header); the same address may be attempted once in
\* each stage when the accept stage delivered nothing.
C37_AtMostOnceDelivery ==
    /\ \A i, j \in 1..Len(forwardCalls) :
          ( /\ i < j
            /\ forwardCalls[i].status = "resolved"
            /\ forwardCalls[j].status = "resolved" )
          => forwardCalls[i].destination # forwardCalls[j].destination
    /\ \A i, j \in 1..Len(forwardCalls) :
          ( /\ forwardCalls[i].actionType = "AcceptForwarding"
            /\ forwardCalls[i].status = "resolved" )
          => /\ forwardCalls[j].actionType # "RejectForwarding"
             /\ forwardCalls[j].headerValue = customHeaderPass
    /\ \A i, j \in 1..Len(forwardCalls) :
          ( /\ i < j
            /\ forwardCalls[i].destination = forwardCalls[j].destination )
          => /\ forwardCalls[i].actionType = "AcceptForwarding"
             /\ forwardCalls[i].status = "rejected"
             /\ forwardCalls[j].actionType = "RejectForwarding"
             /\ ~SomeForwardSucceeded("AcceptForwarding")

\* Reached: an address that failed in the accept stage is delivered to, once,
\* in the reject stage
C37_Witness ==
    /\ pc = "RejectForwarded"
    /\ \E i, j \in 1..Len(forwardCalls) :
          /\ forwardCalls[i].destination = forwardCalls[j].destination
          /\ forwardCalls[i].status = "rejected"
          /\ forwardCalls[j].status = "resolved"

\* C38: the reason passed to message.setReject is never the empty string and
\* never contains '@', whatever reject treatments the store and the
\* environment hold (empty, blank and address-valued ones included) and
\* whatever the recipient.
C38_RejectReasonNeverEmptyNorAddress ==
    \A i \in 1..Len(rejectCalls) :
        /\ rejectCalls[i] # ""
        /\ Trim(rejectCalls[i]) # ""
        /\ ~Includes(rejectCalls[i], "@")

\* Reached: a direct reject although every configured reject treatment is an
\* address or blank
C38_Witness ==
    /\ pc = "DirectRejected"
    /\ Len(rejectCalls) = 1
    /\ Includes(userRejectTreatment, "@")
    /\ Includes(globalRejectTreatment, "@") \/ Trim(globalRejectTreatment) = ""
    /\ "REJECT_TREATMENT" \in DOMAIN environment


\* No forward attempt is outstanding
NoForwardOutstanding ==
    \A i \in 1..Len(forwardCalls) : forwardCalls[i].status # "pending"

\* The stages are in order: a forward of the reject stage exists only when
\* every forward of the accept stage has completed; reject has been invoked,
\* or the handler has returned or raised, only when no forward is
\* outstanding
StagesInOrder ==
    /\ (\E j \in 1..Len(forwardCalls) : forwardCalls[j].actionType = "RejectForwarding")
       => \A i \in 1..Len(forwardCalls) :
             forwardCalls[i].actionType = "AcceptForwarding"
             => forwardCalls[i].status # "pending"
    /\ rejectCalls # << >> => NoForwardOutstanding
    /\ pc \in EndedPositions => NoForwardOutstanding

\* C39 (stages never overlap): the first reject-forward attempt is issued
\* only after every forward attempt of the accept stage has completed,
\* reject is invoked only after every forward attempt of the invocation has
\* completed, and when the handler returns or raises no forward attempt is
\* outstanding and none is issued afterwards.
C39_StagesNeverOverlap ==
    [][ /\ StagesInOrder
        /\ StagesInOrder'
        /\ pc \in EndedPositions => forwardCalls' = forwardCalls
        /\ rejectCalls # << >> => forwardCalls' = forwardCalls ]_vars

\* Reached: the first forward of the reject stage pending, after an accept
\* stage of several primaries with backups that all failed
C39_Witness ==
    /\ pc = "RejectForwarding"
    /\ Len(CallsOf("RejectForwarding", 1)) = 1
    /\ Cardinality(PrimariesOf("AcceptForwarding")) >= 2
    /\ \E i \in 1..Len(forwardCalls) : forwardCalls[i].backupDestinationId >= 2
    /\ ~NoForwardOutstanding


\* The forward calls made by the running forwardToPrimaryDestination number
\* p, in call order
CallsOfResult(p) ==
    CallsOf(forwardCalls[primaries[p].call].actionType, p)

\* C40: every result of forwardToPrimaryDestination is self-consistent.  If
\* wasSuccessful, successfulDestination is the backup at index k, k being the
\* number of recorded errors, exactly k + 1 forwards were attempted and they
\* went to the first k + 1 backups in order; if not wasSuccessful,
\* successfulDestination is null and the number of recorded errors equals
\* the number of backups of the primary.
C40_PrimaryResultConsistent ==
    \A p \in 1..Len(primaries) :
        primaries[p].returned =>
            LET result == primaries[p]
                k == Len(result.errors)
                calls == CallsOfResult(p)
            IN  /\ Len(result.errorMessages) = k
                /\ \A i \in 1..k :
                      /\ calls[i].status = "rejected"
                      /\ calls[i].destination = result.primaryDestination[i]
                      /\ result.errors[i] = calls[i].errorMessage
                      /\ result.errorMessages[i].backupDestinationId = i
                      /\ result.errorMessages[i].backupDestination
                            = result.primaryDestination[i]
                /\ IF result.wasSuccessful
                   THEN /\ k < Len(result.primaryDestination)
                        /\ successfulDestination(result) = result.primaryDestination[k + 1]
                        /\ Len(calls) = k + 1
                        /\ calls[k + 1].destination = result.primaryDestination[k + 1]
                        /\ calls[k + 1].status = "resolved"
                   ELSE /\ successfulDestination(result) = ""
                        /\ k = Len(result.primaryDestination)
                        /\ Len(calls) = k

\* Reached: a result that is successful at its third backup after two
\* recorded errors
C40_Witness ==
    \E p \in 1..Len(primaries) :
        /\ primaries[p].returned
        /\ primaries[p].wasSuccessful
        /\ Len(primaries[p].errors) = 2
        /\ successfulDestination(primaries[p]) = primaries[p].primaryDestination[3]
        /\ Len(CallsOfResult(p)) = 3

\* Reached: a result without success after three recorded errors
C40_WitnessExhausted ==
    \E p \in 1..Len(primaries) :
        /\ primaries[p].returned
        /\ ~primaries[p].wasSuccessful
        /\ Len(primaries[p].errors) = 3
        /\ successfulDestination(primaries[p]) = ""

====
